---- MODULE Spec2Model ----
(***************************************************************************)
(* hop2it: a local reverse proxy that routes requests by domain and path,  *)
(* keeps a trace record per request and logs every request.                *)
(*                                                                         *)
(* Strings of the program are modelled as sequences of one-character       *)
(* strings, so that startsWith, endsWith, split and substring are what     *)
(* they are in the code.  An optional value (a field that may be           *)
(* undefined) is the empty sequence when absent and a one-element sequence *)
(* when present.                                                           *)
(***************************************************************************)
EXTENDS Integers, Sequences, FiniteSets, TLC

VARIABLES
    rtTable, rtDomain, rtUrl, rtResult,     \* route resolver: inputs and result
    mValue, mImpl, mOut,                    \* header masking: input, class, result
    tiHeaders, tiFresh, tiOut,              \* trace id extraction: headers, uuid, result
    started, stopped,                       \* ProxyServer.start() / stop() have run
    config,                                 \* ProxyServer.config
    globalLevel, domainLevels,              \* Logger.globalLevel, Logger.domainLevels
    logBuffer,                              \* LogStreamer.logBuffer
    traces,                                 \* TraceManager.traces: id -> trace object
    traceObj,                               \* the trace object each request created
    timers,                                 \* pending eviction timers, in creation order
    now,                                    \* Date.now()
    reqs,                                   \* the requests and upgrades being handled
    reloads,                                \* configuration events delivered so far
    sanHeaders, sanResHeaders,              \* header capture: req.headers, proxyRes.headers
    sanLogHeaders,                          \* logRequestHeaders / logResponseHeaders
    sanTrace, sanLog, sanPc,                \* the trace record, the messages logged, position
    clients,                                \* LogStreamer.clients
    sockets,                                \* the WebSocket of each subscriber
    logFile,                                \* the entries appended to the log file
    pending,                                \* streamLog calls waiting for writeToFile
    logCall,                                \* the arguments of the latest Logger.log call
    maxFiles,                               \* LogRotation.config.maxFiles
    names,                                  \* the directory: path, path.1, ... -> file or 0
    inodes,                                 \* the content of every file ever created
    writeStream, currentSize,               \* LogRotation.writeStream, currentSize
    writers,                                \* the calls of write() in progress
    writeCount, rotations,                  \* calls of write() started, rotations finished
    writeAfterEnd,                          \* a write reached a stream already ended
    rlIn,                                   \* response relay: the upstream response and the flags
    rlPc, rlSent,                           \* position of the relay, chunks proxyRes has emitted
    rlCapture,                              \* responseBodyCapture: chunks and totalSize, if set up
    rlQueue,                                \* chunks captureStream has still to hand on
    rlRes, rlResEnded,                      \* what was written to the client response; res.end()
    rlNow,                                  \* Date.now()
    rlTrace, rlLog,                         \* the finalized trace record, the request log entry
    rlLate,                                 \* chunks written to the response after its end
    rwEntry, rwUrl, rwOut,                  \* path rewriting: the route, req.url, the new req.url
    lrTrace, lrRoute, lrGlobal,             \* logRequest: its trace, route and globalConfig arguments
    lrStage, lrOut,                         \* the stage it waits at, the log calls it has made
    cpIn,                                   \* request body capture: what the client sends, tracing
    cpEmitted, cpStream,                    \* chunks req has emitted, the state of req
    cpCap,                                  \* chunks, totalSize and settlement of the promise
    cpTimer,                                \* the 100 ms timer has fired
    cpPc, cpRequestBody,                    \* position of handleRequest, its requestBody
    cpUpstream,                             \* what the request to the target was piped
    beIn,                                   \* a handler that logs to a file: its kind, the write
    bePc,                                   \* position of the handler
    beBuffer, beFile, beReceived,           \* LogBuffer, log file, messages sent to the subscriber
    beStatus                                \* the status of the response written, if any

routeVars == <<rtTable, rtDomain, rtUrl, rtResult>>

maskVars == <<mValue, mImpl, mOut>>

traceIdVars == <<tiHeaders, tiFresh, tiOut>>

pipeVars == <<started, stopped, config, globalLevel, domainLevels, logBuffer,
              traces, traceObj, timers, now, reqs, reloads>>

sanVars == <<sanHeaders, sanResHeaders, sanLogHeaders, sanTrace, sanLog, sanPc>>

streamVars == <<clients, sockets, logFile, pending, logCall>>

rotVars == <<maxFiles, names, inodes, writeStream, currentSize, writers, writeCount,
             rotations, writeAfterEnd>>

relayVars == <<rlIn, rlPc, rlSent, rlCapture, rlQueue, rlRes, rlResEnded, rlNow,
               rlTrace, rlLog, rlLate>>

rewriteVars == <<rwEntry, rwUrl, rwOut>>

logReqVars == <<lrTrace, lrRoute, lrGlobal, lrStage, lrOut>>

captureVars == <<cpIn, cpEmitted, cpStream, cpCap, cpTimer, cpPc, cpRequestBody, cpUpstream>>

fileLogVars == <<beIn, bePc, beBuffer, beFile, beReceived, beStatus>>

vars == <<rtTable, rtDomain, rtUrl, rtResult, mValue, mImpl, mOut,
          tiHeaders, tiFresh, tiOut,
          started, stopped, config, globalLevel, domainLevels, logBuffer,
          traces, traceObj, timers, now, reqs, reloads,
          sanHeaders, sanResHeaders, sanLogHeaders, sanTrace, sanLog, sanPc,
          clients, sockets, logFile, pending, logCall,
          maxFiles, names, inodes, writeStream, currentSize, writers, writeCount,
          rotations, writeAfterEnd,
          rlIn, rlPc, rlSent, rlCapture, rlQueue, rlRes, rlResEnded, rlNow,
          rlTrace, rlLog, rlLate,
          rwEntry, rwUrl, rwOut,
          lrTrace, lrRoute, lrGlobal, lrStage, lrOut,
          cpIn, cpEmitted, cpStream, cpCap, cpTimer, cpPc, cpRequestBody, cpUpstream,
          beIn, bePc, beBuffer, beFile, beReceived, beStatus>>

----------------------------------------------------------------------------
(* Optional values and string helpers                                      *)

None == <<>>

Some(v) == <<v>>

IsSome(o) == Len(o) = 1

Get(o) == o[1]

\* JavaScript truthiness of an optional string: undefined and "" are falsy.
Truthy(o) == IsSome(o) /\ Len(Get(o)) > 0

StartsWith(s, p) == Len(p) <= Len(s) /\ SubSeq(s, 1, Len(p)) = p

EndsWith(s, p) == Len(p) <= Len(s) /\ SubSeq(s, Len(s) - Len(p) + 1, Len(s)) = p

\* s.substring(n)
Substring(s, n) == SubSeq(s, n + 1, Len(s))

Min(a, b) == IF a <= b THEN a ELSE b

\* Index of the first occurrence of character c in s at or after position i, 0 when none.
RECURSIVE IndexOfFrom(_, _, _)
IndexOfFrom(s, c, i) ==
    IF i > Len(s) THEN 0
    ELSE IF s[i] = c THEN i
    ELSE IndexOfFrom(s, c, i + 1)

Includes(s, c) == IndexOfFrom(s, c, 1) # 0

\* s.split(c): the sequence of segments of s between occurrences of c.
RECURSIVE Split(_, _)
Split(s, c) ==
    LET i == IndexOfFrom(s, c, 1)
    IN  IF i = 0 THEN <<s>>
        ELSE <<SubSeq(s, 1, i - 1)>> \o Split(SubSeq(s, i + 1, Len(s)), c)

\* s.split(c, limit): at most limit segments, the rest dropped.
SplitLimit(s, c, limit) ==
    LET parts == Split(s, c)
    IN  SubSeq(parts, 1, Min(Len(parts), limit))

----------------------------------------------------------------------------
(* Route resolver: ProxyServer.findRoute                                   *)

\* A route table is Object.entries(config.routes): a sequence, in insertion
\* order, of [key |-> routeKey, route |-> RouteConfig].
RouteConfig(target, path, pathReplace, enabled, logging) ==
    [target |-> target, path |-> path, pathReplace |-> pathReplace,
     enabled |-> enabled, logging |-> logging]

ExactScore == 1000

WildcardScore == 500

\* routeDomain / routePath of a key: split on ':' when the key contains one.
KeyDomain(routeKey) ==
    IF Includes(routeKey, ":") THEN SplitLimit(routeKey, ":", 2)[1] ELSE routeKey

KeyPath(routeKey) ==
    IF Includes(routeKey, ":") THEN Some(SplitLimit(routeKey, ":", 2)[2]) ELSE None

\* The domain part of the loop body: <<domainMatch, score>>.
DomainMatch(routeDomain, domain) ==
    IF routeDomain = domain THEN <<TRUE, ExactScore>>
    ELSE IF StartsWith(routeDomain, <<"*", ".">>)
              /\ EndsWith(domain, Substring(routeDomain, 2))
         THEN <<TRUE, WildcardScore>>
         ELSE <<FALSE, 0>>

\* const pathToMatch = routePath || route.path
PathToMatch(entry) ==
    IF Truthy(KeyPath(entry.key)) THEN KeyPath(entry.key) ELSE entry.route.path

\* One iteration of the loop: the candidates the entry contributes (none or one).
Candidate(entry, domain, url) ==
    LET dm == DomainMatch(KeyDomain(entry.key), domain)
        pathToMatch == PathToMatch(entry)
    IN  IF ~dm[1] THEN <<>>
        ELSE IF Truthy(pathToMatch) /\ Truthy(url)
             THEN IF StartsWith(Get(url), Get(pathToMatch))
                  THEN <<[entry |-> entry, score |-> dm[2] + Len(Get(pathToMatch))]>>
                  ELSE <<>>
             ELSE IF ~Truthy(pathToMatch)
                  THEN <<[entry |-> entry, score |-> dm[2]]>>
                  ELSE <<>>

RECURSIVE Candidates(_, _, _)
Candidates(table, domain, url) ==
    IF table = <<>> THEN <<>>
    ELSE Candidate(Head(table), domain, url) \o Candidates(Tail(table), domain, url)

\* Insert c into a sequence sorted by descending score, after its equals
\* (Array.prototype.sort is stable).
RECURSIVE InsertDesc(_, _)
InsertDesc(sorted, c) ==
    IF sorted = <<>> THEN <<c>>
    ELSE IF Head(sorted).score >= c.score
         THEN <<Head(sorted)>> \o InsertDesc(Tail(sorted), c)
         ELSE <<c>> \o sorted

RECURSIVE InsertAsc(_, _)
InsertAsc(sorted, c) ==
    IF sorted = <<>> THEN <<c>>
    ELSE IF Head(sorted).score <= c.score
         THEN <<Head(sorted)>> \o InsertAsc(Tail(sorted), c)
         ELSE <<c>> \o sorted

RECURSIVE SortAsc(_)
SortAsc(cands) ==
    IF cands = <<>> THEN <<>>
    ELSE InsertAsc(SortAsc(SubSeq(cands, 1, Len(cands) - 1)), cands[Len(cands)])

\* candidates.sort((a, b) => b.score - a.score)
RECURSIVE SortByScoreDesc(_)
SortByScoreDesc(cands) ==
    IF cands = <<>> THEN <<>>
    ELSE InsertDesc(SortByScoreDesc(SubSeq(cands, 1, Len(cands) - 1)), cands[Len(cands)])

\* A resolver that passes over disabled routes.
RECURSIVE EnabledOnly(_)
EnabledOnly(table) ==
    IF table = <<>> THEN <<>>
    ELSE (IF Head(table).route.enabled = Some(FALSE) THEN <<>> ELSE <<Head(table)>>)
         \o EnabledOnly(Tail(table))

FindRouteEnabledOnly(table, domain, url) ==
    LET candidates == Candidates(EnabledOnly(table), domain, url)
    IN  IF Len(candidates) = 0 THEN None
        ELSE Some(SortByScoreDesc(candidates)[1].entry)

\* findRoute(domain, url): the entry of the selected route, or None.
findRoute(table, domain, url) ==
    LET candidates == Candidates(table, domain, url)
    IN  IF Len(candidates) = 0 THEN None
        ELSE Some(SortByScoreDesc(candidates)[1].entry)

----------------------------------------------------------------------------
(* Header masking: TraceManager.maskSensitiveValue and its copy in         *)
(* BodyCapture                                                             *)

UpperChars ==
    <<"A", "B", "C", "D", "E", "F", "G", "H", "I", "J", "K", "L", "M",
      "N", "O", "P", "Q", "R", "S", "T", "U", "V", "W", "X", "Y", "Z">>

LowerChars ==
    <<"a", "b", "c", "d", "e", "f", "g", "h", "i", "j", "k", "l", "m",
      "n", "o", "p", "q", "r", "s", "t", "u", "v", "w", "x", "y", "z">>

ToLowerChar(c) ==
    IF \E i \in 1..Len(UpperChars) : UpperChars[i] = c
    THEN LowerChars[CHOOSE i \in 1..Len(UpperChars) : UpperChars[i] = c]
    ELSE c

\* s.toLowerCase()
ToLowerCase(s) == [i \in 1..Len(s) |-> ToLowerChar(s[i])]

\* c.repeat(n)
Repeat(c, n) == [i \in 1..n |-> c]

DigitChars == <<"0", "1", "2", "3", "4", "5", "6", "7", "8", "9">>

\* The decimal text of a natural number, as a template literal prints it.
RECURSIVE NumberToString(_)
NumberToString(n) ==
    IF n < 10 THEN <<DigitChars[n + 1]>>
    ELSE NumberToString(n \div 10) \o <<DigitChars[(n % 10) + 1]>>

authPrefixes ==
    << <<"b", "e", "a", "r", "e", "r", " ">>,
       <<"b", "a", "s", "i", "c", " ">>,
       <<"d", "i", "g", "e", "s", "t", " ">>,
       <<"a", "p", "i", "k", "e", "y", " ">>,
       <<"t", "o", "k", "e", "n", " ">> >>

Txt_EMPTY == <<"[", "E", "M", "P", "T", "Y", "]">>

Txt_REDACTED == <<"[", "R", "E", "D", "A", "C", "T", "E", "D", "]">>

MaxShow == 8

MaxMask == 20

\* The for loop over authPrefixes: <<prefix, actualValue>> from the first
\* prefix the lower-cased value starts with.
RECURSIVE StripAuthPrefix(_, _)
StripAuthPrefix(value, i) ==
    IF i > Len(authPrefixes) THEN <<<<>>, value>>
    ELSE IF StartsWith(ToLowerCase(value), authPrefixes[i])
         THEN <<SubSeq(value, 1, Len(authPrefixes[i])), Substring(value, Len(authPrefixes[i]))>>
         ELSE StripAuthPrefix(value, i + 1)

\* A masking that shows a quarter of the whole value, prefix included.
MaskWholeValue(value) ==
    IF Len(value) = 0 THEN Txt_EMPTY
    ELSE
        LET showLength == Min(Len(value) \div 4, MaxShow)
            maskedLength == Len(value) - showLength
        IN  IF showLength = 0 THEN Txt_REDACTED
            ELSE SubSeq(value, 1, showLength) \o Repeat("*", Min(maskedLength, MaxMask))
                 \o (IF maskedLength > MaxMask
                     THEN <<".", ".", ".", "+">> \o NumberToString(maskedLength - MaxMask)
                     ELSE <<>>)

\* TraceManager.maskSensitiveValue(value)
maskSensitiveValue(value) ==
    IF Len(value) = 0 THEN Txt_EMPTY
    ELSE
        LET stripped == StripAuthPrefix(value, 1)
            prefix == stripped[1]
            actualValue == stripped[2]
            showLength == Min(Len(actualValue) \div 4, MaxShow)
            visiblePart == SubSeq(actualValue, 1, showLength)
            maskedLength == Len(actualValue) - showLength
            mask == Repeat("*", Min(maskedLength, MaxMask))
        IN  IF Len(actualValue) = 0 THEN prefix \o Txt_EMPTY
            ELSE IF showLength = 0 THEN prefix \o Txt_REDACTED
            ELSE prefix \o visiblePart \o mask
                 \o (IF maskedLength > MaxMask
                     THEN <<".", ".", ".", "+">> \o NumberToString(maskedLength - MaxMask)
                     ELSE <<>>)

\* BodyCapture.maskSensitiveValue(value)
BodyCapture_maskSensitiveValue(value) ==
    IF Len(value) = 0 THEN Txt_EMPTY
    ELSE
        LET stripped == StripAuthPrefix(value, 1)
            prefix == stripped[1]
            actualValue == stripped[2]
            showLength == Min(Len(actualValue) \div 4, MaxShow)
            visiblePart == SubSeq(actualValue, 1, showLength)
            maskedLength == Len(actualValue) - showLength
            mask == Repeat("*", Min(maskedLength, MaxMask))
        IN  IF Len(actualValue) = 0 THEN prefix \o Txt_EMPTY
            ELSE IF showLength = 0 THEN prefix \o Txt_REDACTED
            ELSE prefix \o visiblePart \o mask
                 \o (IF maskedLength > MaxMask
                     THEN <<".", ".", ".", "+">> \o NumberToString(maskedLength - MaxMask)
                     ELSE <<>>)

----------------------------------------------------------------------------
(* Inputs of the masking: a scheme prefix in some spelling (or none, or    *)
(* something that is almost one) followed by a secret of every length up   *)
(* to MaxSecretLen.                                                        *)

MaxSecretLen == 37

SecretChars ==
    <<"a", "b", "c", "d", "e", "f", "g", "h", "i", "j", "k", "l", "m",
      "n", "o", "p", "q", "r", "s", "t", "u", "v", "w", "x", "y", "z",
      "0", "1", "2", "3", "4", "5", "6", "7", "8", "9">>

\* The first n characters of abc...xyz0123456789abc...
SecretOfLen(n) == [i \in 1..n |-> SecretChars[((i - 1) % Len(SecretChars)) + 1]]

Pre_Bearer == <<"B", "e", "a", "r", "e", "r", " ">>

ValuePrefixes ==
    { <<>>,
      Pre_Bearer,
      <<"b", "e", "a", "r", "e", "r", " ">>,
      <<"B", "A", "S", "I", "C", " ">>,
      <<"D", "i", "g", "e", "s", "t", " ">>,
      <<"A", "p", "i", "K", "e", "y", " ">>,
      <<"t", "o", "k", "e", "n", " ">>,
      <<"B", "e", "a", "r", "e", "r">>,
      <<"B", "e", "a", "r", "e", "r", " ", "b", "a", "s", "i", "c", " ">>,
      <<" ">> }

MaskInputs == {p \o SecretOfLen(n) : p \in ValuePrefixes, n \in 0..MaxSecretLen}

MaskIdle ==
    /\ mValue = <<>>
    /\ mImpl = "none"
    /\ mOut = <<"idle">>

MaskInit ==
    /\ mValue \in MaskInputs
    /\ mImpl \in {"TraceManager", "BodyCapture"}
    /\ mOut = <<"pending">>

Mask ==
    /\ mOut = <<"pending">>
    /\ mOut' = <<"done", IF mImpl = "TraceManager"
                         THEN maskSensitiveValue(mValue)
                         ELSE BodyCapture_maskSensitiveValue(mValue)>>
    /\ UNCHANGED <<mValue, mImpl>>
    /\ UNCHANGED <<routeVars, traceIdVars, pipeVars, sanVars, streamVars, rotVars, relayVars, rewriteVars, logReqVars, captureVars, fileLogVars>>

----------------------------------------------------------------------------
(* Trace id extraction: TraceManager.extractTraceId                        *)

\* The headers of a request that extractTraceId reads: header name -> optional
\* string value (an empty string is a header sent with no value).
traceHeaders ==
    << "x-trace-id", "x-request-id", "x-correlation-id", "traceparent", "x-amzn-trace-id" >>

traceHeadersSwapped ==
    << "x-request-id", "x-trace-id", "x-correlation-id", "traceparent", "x-amzn-trace-id" >>

\* The body of the for loop for one header with a truthy value.
HeaderId(header, value) ==
    IF header = "traceparent" /\ Len(Split(value, "-")) >= 2
    THEN Split(value, "-")[2]
    ELSE value

RECURSIVE ExtractLoop(_, _, _, _)
ExtractLoop(order, headers, i, fresh) ==
    IF i > Len(order) THEN fresh
    ELSE IF Truthy(headers[order[i]])
         THEN HeaderId(order[i], Get(headers[order[i]]))
         ELSE ExtractLoop(order, headers, i + 1, fresh)

ExtractSwapped(headers, fresh) == ExtractLoop(traceHeadersSwapped, headers, 1, fresh)

\* extractTraceId(req), with fresh the value randomUUID() would return.
extractTraceId(headers, fresh) == ExtractLoop(traceHeaders, headers, 1, fresh)

\* Header values: absent, empty, a plain id, and a dash-delimited value, named
\* after the header so that the source of a returned id is visible.
HeaderTag(header) ==
    CASE header = "x-trace-id" -> "t"
      [] header = "x-request-id" -> "r"
      [] header = "x-correlation-id" -> "c"
      [] header = "traceparent" -> "p"
      [] header = "x-amzn-trace-id" -> "z"

HeaderValues(header) ==
    { None, Some(<<>>), Some(<<HeaderTag(header)>>),
      Some(<<"0", "0", "-", HeaderTag(header), "-", "0", "1">>) }

HeaderNames == {traceHeaders[i] : i \in 1..Len(traceHeaders)}

HeaderMaps == {h \in [HeaderNames -> UNION {HeaderValues(n) : n \in HeaderNames}] :
                   \A n \in HeaderNames : h[n] \in HeaderValues(n)}

NoHeaders == [n \in HeaderNames |-> None]

Uuid(k) == <<"u", "u", "i", "d", DigitChars[k + 1]>>

TraceIdIdle ==
    /\ tiHeaders = NoHeaders
    /\ tiFresh = <<>>
    /\ tiOut = <<"idle">>

TraceIdInit ==
    /\ tiHeaders \in HeaderMaps
    /\ tiFresh = Uuid(1)
    /\ tiOut = <<"pending">>

Extract ==
    /\ tiOut = <<"pending">>
    /\ tiOut' = <<"done", extractTraceId(tiHeaders, tiFresh)>>
    /\ UNCHANGED <<tiHeaders, tiFresh>>
    /\ UNCHANGED <<routeVars, maskVars, pipeVars, sanVars, streamVars, rotVars, relayVars, rewriteVars, logReqVars, captureVars, fileLogVars>>

----------------------------------------------------------------------------
(* Inputs of the route resolver                                            *)

MaxRoutes == 2

T1 == "http://127.0.0.1:3000"

T2 == "http://127.0.0.1:8000"

Str_a_io == <<"a", ".", "i", "o">>

Str_b_a_io == <<"b", ".", "a", ".", "i", "o">>

Str_ba_io == <<"b", "a", ".", "i", "o">>

Str_w_io == <<"*", ".", "i", "o">>

Str_w_a_io == <<"*", ".", "a", ".", "i", "o">>

P_x == <<"/", "x">>

P_xy == <<"/", "x", "y">>

P_z == <<"/", "z">>

WithPath(dom, p) == dom \o <<":">> \o p

RouteDomains == {Str_a_io, Str_w_io, Str_w_a_io}

RouteKeys ==
    RouteDomains \cup {WithPath(d, P_x) : d \in RouteDomains}
                 \cup {WithPath(Str_a_io, P_xy), WithPath(Str_w_io, <<>>)}

RouteEntries ==
    {[key |-> k, route |-> RouteConfig(t, p, None, Some(TRUE), None)] :
        k \in RouteKeys, t \in {T1}, p \in {None, Some(P_xy)}}

DistinctKeys(table) ==
    \A i, j \in 1..Len(table) : i # j => table[i].key # table[j].key

RouteTables ==
    {t \in UNION {[1..n -> RouteEntries] : n \in 0..MaxRoutes} : DistinctKeys(t)}

RequestDomains == {Str_a_io, Str_b_a_io, Str_ba_io}

RequestUrls == {<<"/">>, P_x, P_xy \o <<"/", "1">>, P_z}

----------------------------------------------------------------------------
(* Specification of the route resolver alone: findRoute applied to every   *)
(* bounded table and request.                                              *)

RouteIdle ==
    /\ rtTable = <<>>
    /\ rtDomain = <<>>
    /\ rtUrl = <<>>
    /\ rtResult = <<"idle">>

RouteInit ==
    /\ rtTable \in RouteTables
    /\ rtDomain \in RequestDomains
    /\ rtUrl \in RequestUrls
    /\ rtResult = <<"pending">>

Resolve ==
    /\ rtResult = <<"pending">>
    /\ rtResult' = <<"done", findRoute(rtTable, rtDomain, Some(rtUrl))>>
    /\ UNCHANGED <<rtTable, rtDomain, rtUrl>>
    /\ UNCHANGED <<maskVars, traceIdVars, pipeVars, sanVars, streamVars, rotVars, relayVars, rewriteVars, logReqVars, captureVars, fileLogVars>>

----------------------------------------------------------------------------
(* The proxy pipeline: configuration, logger, trace manager                *)

NumReq == 2

RequestIds == 1..NumReq

\* 60000 ms: how long finishTrace keeps a finished trace.
GracePeriod == 60000

\* The clock advances in steps of GracePeriod / TicksPerGrace ms, MaxTicks times.
TicksPerGrace == 1

TickMs == GracePeriod \div TicksPerGrace

MaxTicks == 1

MaxReloads == 1

EmptyMap == [k \in {} |-> 0]

MapSet(m, k, v) == [x \in (DOMAIN m) \cup {k} |-> IF x = k THEN v ELSE m[x]]

MapDelete(m, k) == [x \in (DOMAIN m) \ {k} |-> m[x]]

(* Strings of the scenarios *)

Str_x_dev_local == <<"x", ".", "d", "e", "v", ".", "l", "o", "c", "a", "l">>

Str_w_dev_local == <<"*", ".", "d", "e", "v", ".", "l", "o", "c", "a", "l">>

Str_api_local == <<"a", "p", "i", ".", "l", "o", "c", "a", "l">>

Str_other_local == <<"o", "t", "h", "e", "r", ".", "l", "o", "c", "a", "l">>

Str_unknown == <<"u", "n", "k", "n", "o", "w", "n">>

Str_SYSTEM == <<"S", "Y", "S", "T", "E", "M">>

P_api == <<"/", "a", "p", "i">>

P_v2 == <<"/", "v", "2">>

P_api_users == <<"/", "a", "p", "i", "/", "u", "s", "e", "r", "s">>

P_other == <<"/", "o", "t", "h", "e", "r">>

T3 == "http://localhost:3001"

T4 == "http://127.0.0.1:4000"

T_invalid == "not a url"

\* new URL(target) throws for a target that is no absolute URL.
ValidUrl(target) == target # T_invalid

GlobalConfig(logging, tracing, logRequestBody) ==
    [logging |-> logging, tracing |-> tracing, logRequestBody |-> logRequestBody]

Entry(key, route) == [key |-> key, route |-> route]

\* ConfigManager.getDefaultConfig(): no routes, logging 'info', tracing on.
DefaultConfig ==
    [id |-> 0, routes |-> <<>>, global |-> GlobalConfig("info", TRUE, Some(FALSE))]

\* The route table of the README: a wildcard route with a key path, an empty
\* pathReplace and a level of its own, and a wildcard catch-all.
ConfigReadme ==
    [id |-> 1,
     routes |-> << Entry(WithPath(Str_w_dev_local, P_api),
                         RouteConfig(T1, None, Some(<<>>), Some(TRUE), Some("warn"))),
                   Entry(Str_w_dev_local,
                         RouteConfig(T2, None, None, Some(TRUE), None)) >>,
     global |-> GlobalConfig("info", TRUE, Some(FALSE))]

\* A single exact route.
ConfigSingle ==
    [id |-> 2,
     routes |-> << Entry(Str_api_local,
                         RouteConfig(T3, Some(P_api), Some(P_v2), Some(TRUE), Some("debug"))) >>,
     global |-> GlobalConfig("warn", TRUE, Some(TRUE))]

\* A disabled exact route above an enabled wildcard route, and a route whose
\* target is not a URL.
ConfigDisabled ==
    [id |-> 3,
     routes |-> << Entry(Str_w_dev_local,
                         RouteConfig(T2, None, None, Some(TRUE), None)),
                   Entry(Str_x_dev_local,
                         RouteConfig(T4, None, None, Some(FALSE), None)),
                   Entry(Str_api_local,
                         RouteConfig(T_invalid, None, None, Some(TRUE), None)) >>,
     global |-> GlobalConfig("info", FALSE, None)]

Configs == {ConfigReadme, ConfigSingle, ConfigDisabled}

Str_bad_local == <<"b", "a", "d", ".", "l", "o", "c", "a", "l">>

\* The value of a route the file gives as null.
NullRoute == RouteConfig(<<>>, None, None, None, None)

\* A file that parses but whose last route is null: "bad.local": null.
WithNullRoute(c) ==
    [c EXCEPT !.id = c.id + Cardinality(Configs),
              !.routes = Append(@, Entry(Str_bad_local, NullRoute))]

BrokenConfigs == { WithNullRoute(c) : c \in Configs }

\* The minimal configuration of the documentation: one route given with
\* only a target.
ConfigMinimal ==
    [id |-> 2 * Cardinality(Configs) + 1,
     routes |-> << Entry(Str_api_local, RouteConfig(T3, None, None, None, None)) >>,
     global |-> GlobalConfig("info", TRUE, None)]

ConfigById(i) ==
    CHOOSE c \in Configs \cup {DefaultConfig} \cup BrokenConfigs \cup {ConfigMinimal} : c.id = i

\* Object.keys(config.routes)
RouteKeysOf(routes) == [i \in 1..Len(routes) |-> routes[i].key]

(* Logger *)

levels == <<"error", "warn", "info", "debug">>

\* levels.indexOf(level)
LevelIndexOf(level) ==
    IF \E i \in 1..Len(levels) : levels[i] = level
    THEN (CHOOSE i \in 1..Len(levels) : levels[i] = level) - 1
    ELSE -1

\* Logger.shouldLog against a given target level.
LevelAllows(targetLevel, level) ==
    IF targetLevel = "none" THEN FALSE
    ELSE LevelIndexOf(level) <= LevelIndexOf(targetLevel)

\* Logger.shouldLog that looks at the global level only.
ShouldLogGlobalOnly(level, domain) == LevelAllows(globalLevel, level)

\* Logger.shouldLog(level, domain)
shouldLog(level, domain) ==
    LevelAllows(IF Truthy(domain) /\ Get(domain) \in DOMAIN domainLevels
                THEN domainLevels[Get(domain)]
                ELSE globalLevel,
                level)

maxBufferSize == 1000

\* A streamLog that never drops an entry.
StreamLogNoShift(buffer, entry) == Append(buffer, entry)

\* LogStreamer.streamLog(entry), without a log file: push, shift on overflow.
\* (No subscriber is connected in this specification.)
streamLog(buffer, entry) ==
    LET pushed == Append(buffer, entry)
    IN  IF Len(pushed) > maxBufferSize THEN Tail(pushed) ELSE pushed

\* The entry Logger.log builds (its level, traceId, message and domain fields).
LogEntry(level, traceId, message, domain) ==
    [level |-> level, traceId |-> traceId, message |-> message,
     domain |-> domain]

\* Logger.log(level, message, traceId, domain): the log buffer afterwards.
log(buffer, level, message, traceId, domain) ==
    IF ~shouldLog(level, domain) THEN buffer
    ELSE streamLog(buffer, LogEntry(level, traceId, message, domain))

\* ProxyServer.updateDomainLogging(): one setDomainLevel per route with a level.
RECURSIVE updateDomainLogging(_, _)
updateDomainLogging(dl, routes) ==
    IF routes = <<>> THEN dl
    ELSE updateDomainLogging(
             IF IsSome(Head(routes).route.logging)
             THEN MapSet(dl, Head(routes).key, Get(Head(routes).route.logging))
             ELSE dl,
             Tail(routes))

(* Trace manager *)

\* TraceManager.sanitizeHeaders on the headers modelled here, none of which has a
\* sensitive name: every header with a truthy value is copied.
sanitizeHeaders(headers) ==
    [n \in {m \in DOMAIN headers : Truthy(headers[m])} |-> Get(headers[n])]

\* (req.headers.host || 'unknown').split(':')[0]
HostDomain(host) == Split(IF Truthy(host) THEN Get(host) ELSE Str_unknown, ":")[1]

\* ProxyServer.extractDomain(req)
extractDomain(host) == IF ~Truthy(host) THEN Str_unknown ELSE Split(Get(host), ":")[1]

\* JavaScript truthiness of an optional message text.
TruthyText(o) == IsSome(o) /\ Get(o) # ""

\* The state the synchronous parts of a handler read and write.
World == [traces |-> traces, traceObj |-> traceObj, timers |-> timers,
          logBuffer |-> logBuffer]

\* TraceManager.startTrace(req, requestBody) by request r.
startTrace(w, r, headers, url, host, requestBody) ==
    LET traceId == extractTraceId(headers, Uuid(r))
        trace == [id |-> traceId, timestamp |-> now, url |-> url,
                  headers |-> sanitizeHeaders(headers), domain |-> HostDomain(host),
                  requestBody |-> requestBody, target |-> None, statusCode |-> None,
                  duration |-> None, error |-> None,
                  responseHeaders |-> None, responseBody |-> None]
    IN  [w EXCEPT !.traces = MapSet(@, traceId, r),
                  !.traceObj = [@ EXCEPT ![r] = Some(trace)]]

\* finishTrace that schedules the eviction even when the id is unknown.
FinishTraceAlwaysTimer(w, traceId, statusCode, error, responseHeaders, responseBody) ==
    IF traceId \notin DOMAIN w.traces
    THEN [w |-> [w EXCEPT !.timers = Append(@, [id |-> traceId, due |-> now + GracePeriod])],
          result |-> None]
    ELSE LET o == w.traces[traceId]
             trace == Get(w.traceObj[o])
             finished == [trace EXCEPT
                            !.statusCode = Some(statusCode),
                            !.duration = Some(now - trace.timestamp),
                            !.error = IF TruthyText(error) THEN error ELSE @,
                            !.responseHeaders = IF IsSome(responseHeaders) THEN responseHeaders ELSE @,
                            !.responseBody = IF TruthyText(responseBody) THEN responseBody ELSE @]
         IN  [w |-> [w EXCEPT !.traceObj = [@ EXCEPT ![o] = Some(finished)],
                              !.timers = Append(@, [id |-> traceId, due |-> now + GracePeriod])],
              result |-> Some(o)]

\* TraceManager.finishTrace(traceId, statusCode, error, responseHeaders,
\* responseBody): the world afterwards and the record returned (the request that
\* owns it), None for an unknown id.
finishTrace(w, traceId, statusCode, error, responseHeaders, responseBody) ==
    IF traceId \notin DOMAIN w.traces
    THEN [w |-> w, result |-> None]
    ELSE LET o == w.traces[traceId]
             trace == Get(w.traceObj[o])
             finished == [trace EXCEPT
                            !.statusCode = Some(statusCode),
                            !.duration = Some(now - trace.timestamp),
                            !.error = IF TruthyText(error) THEN error ELSE @,
                            !.responseHeaders = IF IsSome(responseHeaders) THEN responseHeaders ELSE @,
                            !.responseBody = IF TruthyText(responseBody) THEN responseBody ELSE @]
         IN  [w |-> [w EXCEPT !.traceObj = [@ EXCEPT ![o] = Some(finished)],
                              !.timers = Append(@, [id |-> traceId, due |-> now + GracePeriod])],
              result |-> Some(o)]

\* TraceManager.getTrace(traceId)
getTrace(traceId) ==
    IF traceId \in DOMAIN traces THEN traceObj[traces[traceId]] ELSE None

(* Requests *)

IdleReq ==
    [pc |-> "idle", kind |-> "none", host |-> None, url |-> <<>>, originalUrl |-> <<>>,
     headers |-> NoHeaders, method |-> "GET", cfgId |-> 0, route |-> None,
     traceId |-> <<>>, status |-> None, body |-> None, headersSent |-> FALSE,
     fwd |-> None, fin |-> <<>>, totalDuration |-> 0, errorCode |-> None,
     wsOpen |-> FALSE, wsError |-> FALSE, wsClosed |-> FALSE]

Shape(host, url, method) == [host |-> host, url |-> url, method |-> method]

\* The requests sent to the proxy: Host header, URL and method.
HttpShapes ==
    { Shape(Some(Str_x_dev_local), P_api_users, "GET"),
      Shape(Some(Str_other_local), P_other, "GET"),
      Shape(Some(Str_api_local \o <<":", "8", "0">>), P_api_users, "POST") }

\* The upgrade requests sent to the proxy.
WsShapes ==
    { Shape(Some(Str_x_dev_local), P_api_users, "GET"),
      Shape(Some(Str_api_local), P_api_users, "GET") }

\* Requests carry no trace header or an x-trace-id chosen by the client.
PipeHeaders ==
    { NoHeaders, [NoHeaders EXCEPT !["x-trace-id"] = Some(<<"t">>)] }

\* Requests are numbered in the order they arrive.
NextToArrive(r) == \A q \in RequestIds : q < r => reqs[q].pc # "idle"

UpstreamStatuses == {200}

\* error.code of an upstream failure of a proxied request.
ErrorCodes == {"ECONNREFUSED", "ECONNRESET", "ETIMEDOUT"}

\* A refused connection and a timeout.
RefusedOrTimeout == {"ECONNREFUSED", "ETIMEDOUT"}

\* error.code of a failure of a proxied WebSocket.
WsErrorCodes == {"ECONNRESET"}

Msg(code) == "connect " \o code

\* The trace object request r holds (the `trace` local of its handler).
OwnTrace(w, r) == Get(w.traceObj[r])

\* A finishTrace call by the handler of request rq; rq.fin lists the calls made so
\* far, each with the status passed and the record returned (its owner, or None).
Finish(st, statusCode, error) ==
    LET res == finishTrace(st.w, st.rq.traceId, statusCode, error, None, None)
    IN  [w |-> res.w,
         rq |-> [st.rq EXCEPT !.fin = Append(@, [status |-> statusCode,
                                                rec |-> res.result])]]

\* A logger call by the handler.
Log(st, level, message, traceId, domain) ==
    [st EXCEPT !.w.logBuffer = log(@, level, message, traceId, domain)]

At(st, pc) == [st EXCEPT !.rq.pc = pc]

\* A JSON error body: the fields the handler gives (None for one it leaves out).
ErrorBody(error, domain, traceId, message, availableRoutes) ==
    [error |-> error, domain |-> domain, traceId |-> traceId, message |-> message,
     availableRoutes |-> availableRoutes]

\* The message of the error createProxy throws for a target that is no URL.
Txt_InvalidUrl == "Invalid URL"

\* availableRoutes taken from the table the request was resolved against.
NotFoundBodyAtArrival(rq) ==
    ErrorBody("No route configured", Some(extractDomain(rq.host)), rq.traceId, None,
              Some(RouteKeysOf(ConfigById(rq.cfgId).routes)))

\* handleNotFound: the JSON body of the 404 response.
NotFoundBody(rq) ==
    ErrorBody("No route configured", Some(extractDomain(rq.host)), rq.traceId, None,
              Some(RouteKeysOf(config.routes)))

\* handleDisabled: the JSON body of the 503 response.
DisabledBody(rq) ==
    ErrorBody("Route disabled", Some(extractDomain(rq.host)), rq.traceId, None, None)

\* proxyRequest error handler: the JSON body of the 502 response.
BadGatewayBody(rq) ==
    ErrorBody("Bad Gateway", None, rq.traceId, Some("Target server unavailable"), None)

\* handleError: the JSON body of the 500 response.
InternalErrorBody(rq) ==
    ErrorBody("Internal server error", None, rq.traceId, Some(Txt_InvalidUrl), None)

\* handleNotFound up to its first await.
handleNotFound(st) ==
    At(Log(Finish(st, 404, Some("No route configured")),
           "warn", "No route found", st.rq.traceId, Some(extractDomain(st.rq.host))),
       "nf_wait")

\* handleDisabled up to its first await.
handleDisabled(st) ==
    At(Log(Finish(st, 503, Some("Route disabled")),
           "info", "Route disabled", st.rq.traceId, Some(extractDomain(st.rq.host))),
       "dis_wait")

\* handleError up to its first await.
handleError(st, message, r) ==
    At(Log(Finish(st, 500, Some(message)),
           "error", "Request handling error", st.rq.traceId, Some(OwnTrace(st.w, r).domain)),
       "fault_wait")

\* A replacement that is applied only when pathReplace is truthy.
RewriteTruthy(entry, url) ==
    IF Truthy(entry.route.path) /\ Truthy(entry.route.pathReplace) /\ Truthy(Some(url))
       /\ StartsWith(url, Get(entry.route.path))
    THEN Get(entry.route.pathReplace) \o Substring(url, Len(Get(entry.route.path)))
    ELSE url

\* proxyRequest / handleWebSocketUpgrade: path replacement, the new req.url.
Rewrite(entry, url) ==
    IF Truthy(entry.route.path) /\ IsSome(entry.route.pathReplace) /\ Truthy(Some(url))
       /\ StartsWith(url, Get(entry.route.path))
    THEN Get(entry.route.pathReplace) \o Substring(url, Len(Get(entry.route.path)))
    ELSE url

\* A proxyRequest that looks the route up again when it forwards.
ProxySendCurrentTable(st, r) ==
    LET found == findRoute(config.routes, extractDomain(st.rq.host), Some(st.rq.originalUrl))
        route == IF IsSome(found) THEN Get(found).route ELSE Get(st.rq.route).route
    IN  IF ~ValidUrl(route.target) THEN handleError(st, Txt_InvalidUrl, r)
        ELSE At([st EXCEPT !.rq.fwd = Some([target |-> route.target, path |-> st.rq.url,
                                            traceId |-> st.rq.traceId,
                                            forwardedHost |-> IF Truthy(st.rq.host)
                                                              THEN Get(st.rq.host)
                                                              ELSE Str_unknown])],
                "proxying")

\* proxyRequest from createProxy to proxy.web(req, res); a target that is no URL
\* makes createProxy throw, the promise reject and handleRequest call handleError.
proxySend(st, r) ==
    LET route == Get(st.rq.route).route
    IN  IF ~ValidUrl(route.target) THEN handleError(st, Txt_InvalidUrl, r)
        ELSE At([st EXCEPT !.rq.fwd = Some([target |-> route.target, path |-> st.rq.url,
                                            traceId |-> st.rq.traceId,
                                            forwardedHost |-> IF Truthy(st.rq.host)
                                                              THEN Get(st.rq.host)
                                                              ELSE Str_unknown])],
                "proxying")

\* proxyRequest from its start to its first await (or through proxySend).
proxyRequest(st, r) ==
    LET finalUrl == Rewrite(Get(st.rq.route), st.rq.url)
        st1 == [st EXCEPT !.rq.url = finalUrl]
    IN  IF config.global.tracing /\ Truthy(Some(st.rq.originalUrl))
           /\ finalUrl # st.rq.originalUrl
        THEN At(Log(st1, "info", "Path rewritten", st.rq.traceId,
                    Some(OwnTrace(st.w, r).domain)), "rewrite_wait")
        ELSE proxySend(st1, r)

\* A handler that takes a route without `enabled` for an enabled route.
handleRoutedDefaultEnabled(w, rq, r, requestBody) ==
    LET w1 == startTrace(w, r, rq.headers, rq.url, rq.host, requestBody)
        st == [w |-> w1, rq |-> [rq EXCEPT !.traceId = OwnTrace(w1, r).id]]
        domain == extractDomain(rq.host)
    IN  IF ~IsSome(rq.route) THEN handleNotFound(st)
        ELSE IF Get(rq.route).route.enabled = Some(FALSE) THEN handleDisabled(st)
        ELSE LET st1 == [st EXCEPT !.w.traceObj[r] =
                            Some([Get(@) EXCEPT !.target = Some(Get(rq.route).route.target)]),
                                   !.rq.originalUrl = rq.url]
             IN  IF config.global.tracing
                 THEN At(Log(st1, "info", "route", st.rq.traceId, Some(domain)), "route_wait")
                 ELSE proxyRequest(st1, r)

\* handleRequest from startTrace to its next await.
handleRouted(w, rq, r, requestBody) ==
    LET w1 == startTrace(w, r, rq.headers, rq.url, rq.host, requestBody)
        st == [w |-> w1, rq |-> [rq EXCEPT !.traceId = OwnTrace(w1, r).id]]
        domain == extractDomain(rq.host)
    IN  IF ~IsSome(rq.route) THEN handleNotFound(st)
        ELSE IF Get(rq.route).route.enabled # Some(TRUE) THEN handleDisabled(st)
        ELSE LET st1 == [st EXCEPT !.w.traceObj[r] =
                            Some([Get(@) EXCEPT !.target = Some(Get(rq.route).route.target)]),
                                   !.rq.originalUrl = rq.url]
             IN  IF config.global.tracing
                 THEN At(Log(st1, "info", "route", st.rq.traceId, Some(domain)), "route_wait")
                 ELSE proxyRequest(st1, r)

\* What one step of the handler of request r leaves behind.
Commit(st, r) ==
    /\ traces' = st.w.traces
    /\ traceObj' = st.w.traceObj
    /\ timers' = st.w.timers
    /\ logBuffer' = st.w.logBuffer
    /\ reqs' = [reqs EXCEPT ![r] = st.rq]
    /\ UNCHANGED <<started, stopped, config, globalLevel, domainLevels, now, reloads>>
    /\ UNCHANGED <<routeVars, maskVars, traceIdVars, sanVars, streamVars, rotVars, relayVars, rewriteVars, logReqVars, captureVars, fileLogVars>>

Here(r) == [w |-> World, rq |-> reqs[r]]

\* route?.logRequestBody ?? this.config.global.logRequestBody ?? false (no route of
\* the configurations modelled sets logRequestBody).
shouldCaptureRequestBody(route) ==
    IF IsSome(config.global.logRequestBody) THEN Get(config.global.logRequestBody) ELSE FALSE

\* handleRequest(req, res), to its first await.
HttpArrive(r) ==
    /\ started /\ ~stopped
    /\ reqs[r].pc = "idle"
    /\ NextToArrive(r)
    /\ \E shape \in HttpShapes, headers \in PipeHeaders :
         LET host == shape.host
             url == shape.url
             method == shape.method
             domain == extractDomain(host)
             route == findRoute(config.routes, domain, Some(url))
             rq == [IdleReq EXCEPT !.kind = "http", !.host = host, !.url = url,
                                   !.originalUrl = url,
                                   !.headers = headers, !.method = method,
                                   !.cfgId = config.id, !.route = route]
         IN  IF shouldCaptureRequestBody(route) /\ method \in {"POST", "PUT", "PATCH"}
             THEN Commit([w |-> World, rq |-> [rq EXCEPT !.pc = "capturing"]], r)
             ELSE Commit(handleRouted(World, rq, r, None), r)

\* await BodyCapture.captureRequestBody(req) settles: with a body text, or by
\* rejecting, which handleRequest turns into the placeholder.
CaptureSettled(r) ==
    /\ reqs[r].pc = "capturing"
    /\ \E requestBody \in {Some("{}"), Some("[Failed to capture request body]")} :
         Commit(handleRouted(World, reqs[r], r, requestBody), r)

\* handleRequest after `await this.logger.info(... route ...)`.
RouteLogged(r) ==
    /\ reqs[r].pc = "route_wait"
    /\ Commit(proxyRequest(Here(r), r), r)

\* proxyRequest after `await this.logger.info('Path rewritten ...')`.
RewriteLogged(r) ==
    /\ reqs[r].pc = "rewrite_wait"
    /\ Commit(proxySend(Here(r), r), r)

Respond(st, status, body) ==
    [st EXCEPT !.rq.status = Some(status), !.rq.body = Some(body),
               !.rq.headersSent = TRUE, !.rq.pc = "done"]

\* handleNotFound after `await this.logger.warn(...)`: the 404 response.
NotFoundRespond(r) ==
    /\ reqs[r].pc = "nf_wait"
    /\ Commit(Respond(Here(r), 404, NotFoundBody(reqs[r])), r)

\* handleDisabled after `await this.logger.info(...)`: the 503 response.
DisabledRespond(r) ==
    /\ reqs[r].pc = "dis_wait"
    /\ Commit(Respond(Here(r), 503, DisabledBody(reqs[r])), r)

\* handleError after `await this.logger.error(...)`: the 500 response.
FaultRespond(r) ==
    /\ reqs[r].pc = "fault_wait"
    /\ Commit(IF ~reqs[r].headersSent
              THEN Respond(Here(r), 500, InternalErrorBody(reqs[r]))
              ELSE At(Here(r), "done"), r)

\* 'proxyRes': the upstream answered; http-proxy relays status and headers.
ProxyRes(r) ==
    /\ reqs[r].pc = "proxying"
    /\ \E statusCode \in UpstreamStatuses :
         Commit([Here(r) EXCEPT !.rq.status = Some(statusCode), !.rq.headersSent = TRUE,
                                !.rq.pc = "streaming"], r)

\* proxyRes 'end': finish the trace, then logRequest up to its first await.
ResEnd(r) ==
    /\ reqs[r].pc = "streaming"
    /\ LET st == Finish(Here(r), Get(reqs[r].status), None)
           totalDuration == now - OwnTrace(World, r).timestamp
       IN  IF config.global.tracing
           THEN Commit(At(Log([st EXCEPT !.rq.totalDuration = totalDuration],
                              "info", "request", reqs[r].traceId,
                              Some(OwnTrace(World, r).domain)), "end_wait"), r)
           ELSE Commit(At(st, "done"), r)

\* proxyRes 'end' after `await this.logger.logRequest(...)`.
EndLogged(r) ==
    /\ reqs[r].pc = "end_wait"
    /\ Commit(At(IF reqs[r].totalDuration > 500
                 THEN Log(Here(r), "warn", "Slow request", reqs[r].traceId,
                          Some(OwnTrace(World, r).domain))
                 ELSE Here(r), "done"), r)

\* The fallback 'error' listener createProxy registers: a SYSTEM warning for a
\* reset or refused connection, not awaited.
FallbackError(st, code) ==
    IF code \in {"ECONNRESET", "ECONNREFUSED"}
    THEN Log(st, "warn", "Network connection issue", Str_SYSTEM, None)
    ELSE st

\* A handler that reports every upstream error at error.
RequestErrorAlwaysError(st, code, domain) ==
    Log(Finish(st, 500, Some(Msg(code))),
        "error", "Proxy error", st.rq.traceId, domain)

\* The 'error' listener proxyRequest registers, up to its first await.
RequestError(st, code, domain) ==
    Log(Finish(st, 500, Some(Msg(code))),
        IF code \in {"ECONNRESET", "ECONNREFUSED"} THEN "warn" ELSE "error",
        IF code \in {"ECONNRESET", "ECONNREFUSED"}
        THEN "Target server connection lost" ELSE "Proxy error",
        st.rq.traceId, domain)

\* The 'error' listener put on proxyReq in the 'proxyReq' listener.
ProxyReqError(st, code, domain) ==
    IF code \in {"ECONNRESET", "ECONNREFUSED"}
    THEN Log(st, "warn", "Connection error during request", st.rq.traceId, domain)
    ELSE st

\* An upstream error, before or after the upstream answered: the request to
\* the target emits 'error', and the three listeners run one after the other,
\* each up to its first await.
ProxyError(r, codes) ==
    /\ reqs[r].pc \in {"proxying", "streaming"}
    /\ \E code \in codes :
         LET domain == Some(OwnTrace(World, r).domain)
             st == [Here(r) EXCEPT !.rq.errorCode = Some(code)]
         IN  Commit(At(ProxyReqError(RequestError(FallbackError(st, code), code, domain),
                                     code, domain),
                       "err_wait"), r)

\* An 'error' listener that writes the 502 whether or not headers were sent.
ErrorRespondAlways(r) ==
    /\ reqs[r].pc = "err_wait"
    /\ Commit(Respond(Here(r), 502, BadGatewayBody(reqs[r])), r)

\* proxy 'error' after the await: 502 unless headers were sent.
ErrorRespond(r) ==
    /\ reqs[r].pc = "err_wait"
    /\ Commit(IF ~reqs[r].headersSent
              THEN Respond(Here(r), 502, BadGatewayBody(reqs[r]))
              ELSE At(Here(r), "done"), r)

\* The client goes away while its request is proxied.  http-proxy aborts the
\* request to the target and emits 'econnreset', which the server does not
\* listen to, instead of 'error'; the 'error' listener put on proxyReq may see
\* the reset and log it.  No 'end' of the upstream response follows.
ClientDisconnect(r) ==
    /\ reqs[r].kind = "http"
    /\ reqs[r].pc \in {"proxying", "streaming"}
    /\ \E seen \in BOOLEAN :
         LET st == [Here(r) EXCEPT !.rq.errorCode = Some("ECONNRESET")]
         IN  Commit(At(IF seen
                       THEN ProxyReqError(st, "ECONNRESET", Some(OwnTrace(World, r).domain))
                       ELSE st, "done"), r)

(* WebSocket upgrades *)

\* handleWebSocketUpgrade from createProxy to proxy.ws(...); createProxy throwing
\* lands in the catch block.
wsConnect(st, r) ==
    LET route == Get(st.rq.route).route
        domain == extractDomain(st.rq.host)
    IN  IF ~ValidUrl(route.target)
        THEN At(Log(Finish(st, 500, Some(Txt_InvalidUrl)),
                    "error", "WebSocket handling error", st.rq.traceId, Some(domain)),
                "ws_fault_wait")
        ELSE At([st EXCEPT !.rq.fwd = Some([target |-> route.target, path |-> st.rq.url,
                                            traceId |-> st.rq.traceId,
                                            forwardedHost |-> IF Truthy(st.rq.host)
                                                              THEN Get(st.rq.host)
                                                              ELSE Str_unknown])],
                "ws_proxying")

\* handleWebSocketUpgrade after the first tracing log.
wsAfterLog(st, r) ==
    IF st.rq.originalUrl # st.rq.url
    THEN At(Log(st, "info", "WebSocket path rewritten", st.rq.traceId,
                Some(extractDomain(st.rq.host))), "ws_rewrite_wait")
    ELSE wsConnect(st, r)

\* handleWebSocketUpgrade(req, socket, head), to its first await.
WsUpgrade(r) ==
    /\ started /\ ~stopped
    /\ reqs[r].pc = "idle"
    /\ NextToArrive(r)
    /\ \E shape \in WsShapes, headers \in PipeHeaders :
         LET host == shape.host
             url == shape.url
             domain == extractDomain(host)
             route == findRoute(config.routes, domain, Some(url))
             rq == [IdleReq EXCEPT !.kind = "ws", !.host = host, !.url = url,
                                   !.originalUrl = url, !.headers = headers,
                                   !.cfgId = config.id, !.route = route]
         IN  IF ~IsSome(route)
             THEN Commit([w |-> World, rq |-> [rq EXCEPT !.status = Some(404), !.pc = "done"]], r)
             ELSE IF Get(route).route.enabled # Some(TRUE)
             THEN Commit([w |-> World, rq |-> [rq EXCEPT !.status = Some(503), !.pc = "done"]], r)
             ELSE LET w1 == startTrace(World, r, headers, url, host, None)
                      st == [w |-> [w1 EXCEPT !.traceObj[r] =
                                        Some([Get(@) EXCEPT !.target = Some(Get(route).route.target)])],
                             rq |-> [rq EXCEPT !.traceId = OwnTrace(w1, r).id,
                                               !.url = Rewrite(Get(route), url)]]
                  IN  IF config.global.tracing
                      THEN Commit(At(Log(st, "info", "WebSocket", st.rq.traceId, Some(domain)),
                                     "ws_log_wait"), r)
                      ELSE Commit(wsConnect(st, r), r)

\* handleWebSocketUpgrade after `await this.logger.info('WebSocket ...')`.
WsLogged(r) ==
    /\ reqs[r].pc = "ws_log_wait"
    /\ Commit(wsAfterLog(Here(r), r), r)

\* handleWebSocketUpgrade after `await this.logger.info('WebSocket path rewritten ...')`.
WsRewriteLogged(r) ==
    /\ reqs[r].pc = "ws_rewrite_wait"
    /\ Commit(wsConnect(Here(r), r), r)

\* The catch block after `await this.logger.error(...)`: socket.destroy().
WsFaultDone(r) ==
    /\ reqs[r].pc = "ws_fault_wait"
    /\ Commit(At(Here(r), "done"), r)

\* proxy 'open'
WsOpen(r) ==
    /\ reqs[r].pc = "ws_proxying"
    /\ ~reqs[r].wsOpen /\ ~reqs[r].wsError /\ ~reqs[r].wsClosed
    /\ Commit(Log([Here(r) EXCEPT !.rq.wsOpen = TRUE], "info",
                  "WebSocket connection established", reqs[r].traceId,
                  Some(extractDomain(reqs[r].host))), r)

\* proxy 'error' of a WebSocket proxy: finishTrace(500), log, 502 line, destroy.
\* (An error is emitted before the proxy closes, not after.)
WsError(r) ==
    /\ reqs[r].pc = "ws_proxying"
    /\ ~reqs[r].wsError /\ ~reqs[r].wsClosed
    /\ \E code \in WsErrorCodes :
         Commit(Log(Finish([Here(r) EXCEPT !.rq.wsError = TRUE, !.rq.status = Some(502)],
                           500, Some(Msg(code))),
                    IF code \in {"ECONNRESET", "ECONNREFUSED"} THEN "warn" ELSE "error",
                    IF code \in {"ECONNRESET", "ECONNREFUSED"}
                    THEN "WebSocket target server connection lost" ELSE "WebSocket proxy error",
                    reqs[r].traceId, Some(extractDomain(reqs[r].host))), r)

\* proxy 'close': finishTrace(200), log.
WsClose(r) ==
    /\ reqs[r].pc = "ws_proxying"
    /\ ~reqs[r].wsClosed
    /\ Commit(Log(Finish([Here(r) EXCEPT !.rq.wsClosed = TRUE, !.rq.pc = "done"], 200, None),
                  "info", "WebSocket connection closed", reqs[r].traceId,
                  Some(extractDomain(reqs[r].host))), r)

(* Server lifecycle, configuration events, time *)

\* The server as constructed, but for its Logger and LogStreamer.
ServerIdle ==
    /\ started = FALSE
    /\ stopped = FALSE
    /\ config = DefaultConfig
    /\ traces = EmptyMap
    /\ traceObj = [r \in RequestIds |-> None]
    /\ timers = <<>>
    /\ now = 0
    /\ reqs = [r \in RequestIds |-> IdleReq]
    /\ reloads = 0

PipeIdle ==
    /\ started = FALSE
    /\ stopped = FALSE
    /\ config = DefaultConfig
    /\ globalLevel = "info"
    /\ domainLevels = EmptyMap
    /\ logBuffer = <<>>
    /\ traces = EmptyMap
    /\ traceObj = [r \in RequestIds |-> None]
    /\ timers = <<>>
    /\ now = 0
    /\ reqs = [r \in RequestIds |-> IdleReq]
    /\ reloads = 0

\* The constructed server: default configuration, Logger at 'info', no trace.
PipeInit == PipeIdle

\* A SYSTEM entry logged right after the global level was set to `level`.
SystemLog(buffer, level, message) ==
    IF LevelAllows(level, "info")
    THEN streamLog(buffer, LogEntry("info", Str_SYSTEM, message, None))
    ELSE buffer

\* ProxyServer.start(): configManager.load() emits 'config-loaded', the server
\* listens and the two 'started' entries are logged.
StartWith(files) ==
    /\ ~started
    /\ \E c \in files :
         /\ config' = c
         /\ globalLevel' = c.global.logging
         /\ domainLevels' = updateDomainLogging(domainLevels, c.routes)
         /\ logBuffer' = SystemLog(SystemLog(logBuffer, c.global.logging, "started"),
                                   c.global.logging, "Log streaming available")
    /\ started' = TRUE
    /\ UNCHANGED <<stopped, traces, traceObj, timers, now, reqs, reloads>>
    /\ UNCHANGED <<routeVars, maskVars, traceIdVars, sanVars, streamVars, rotVars, relayVars, rewriteVars, logReqVars, captureVars, fileLogVars>>

Start == StartWith(Configs)

\* start() with the minimal configuration in the file.
StartMinimal == StartWith({ConfigMinimal})

\* 'config-changed': swap the configuration, set the levels, log the reload.
ConfigChanged ==
    /\ started /\ ~stopped
    /\ reloads < MaxReloads
    /\ \E c \in Configs :
         /\ c # config
         /\ config' = c
         /\ globalLevel' = c.global.logging
         /\ domainLevels' = updateDomainLogging(domainLevels, c.routes)
         /\ logBuffer' = SystemLog(logBuffer, c.global.logging, "Configuration reloaded")
    /\ reloads' = reloads + 1
    /\ UNCHANGED <<started, stopped, traces, traceObj, timers, now, reqs>>
    /\ UNCHANGED <<routeVars, maskVars, traceIdVars, sanVars, streamVars, rotVars, relayVars, rewriteVars, logReqVars, captureVars, fileLogVars>>

\* The file changed and load() throws before it emits anything (the file cannot
\* be read, or is not JSON): 'config-error', the error is logged.
ConfigError ==
    /\ started /\ ~stopped
    /\ reloads < MaxReloads
    /\ logBuffer' = log(logBuffer, "error", "Configuration error", Str_SYSTEM, None)
    /\ reloads' = reloads + 1
    /\ UNCHANGED <<started, stopped, config, globalLevel, domainLevels, traces, traceObj,
                   timers, now, reqs>>
    /\ UNCHANGED <<routeVars, maskVars, traceIdVars, sanVars, streamVars, rotVars, relayVars, rewriteVars, logReqVars, captureVars, fileLogVars>>

\* The file changed and parses, load() emits 'config-loaded', and the listener
\* throws in updateDomainLogging at the null route (route.logging), after it has
\* stored the configuration and set the levels of the routes before it; load()
\* rethrows, the watcher emits 'config-error', and the error is logged.
ConfigListenerError ==
    /\ started /\ ~stopped
    /\ reloads < MaxReloads
    /\ \E c \in Configs :
         /\ config' = WithNullRoute(c)
         /\ globalLevel' = c.global.logging
         /\ domainLevels' = updateDomainLogging(domainLevels, c.routes)
         /\ logBuffer' = IF LevelAllows(c.global.logging, "error")
                         THEN streamLog(logBuffer, LogEntry("error", Str_SYSTEM,
                                                            "Configuration error", None))
                         ELSE logBuffer
    /\ reloads' = reloads + 1
    /\ UNCHANGED <<started, stopped, traces, traceObj, timers, now, reqs>>
    /\ UNCHANGED <<routeVars, maskVars, traceIdVars, sanVars, streamVars, rotVars, relayVars, rewriteVars, logReqVars, captureVars, fileLogVars>>

\* ProxyServer.stop(): traceManager.cleanup() clears the trace table; the events of
\* the proxies of requests in flight are still delivered.
Stop ==
    /\ started /\ ~stopped
    /\ stopped' = TRUE
    /\ traces' = EmptyMap
    /\ UNCHANGED <<started, config, globalLevel, domainLevels, logBuffer, traceObj,
                   timers, now, reqs, reloads>>
    /\ UNCHANGED <<routeVars, maskVars, traceIdVars, sanVars, streamVars, rotVars, relayVars, rewriteVars, logReqVars, captureVars, fileLogVars>>

\* The oldest eviction timer fires: this.traces.delete(traceId).
EvictTimer ==
    /\ timers # <<>>
    /\ Head(timers).due <= now
    /\ traces' = MapDelete(traces, Head(timers).id)
    /\ timers' = Tail(timers)
    /\ UNCHANGED <<started, stopped, config, globalLevel, domainLevels, logBuffer,
                   traceObj, now, reqs, reloads>>
    /\ UNCHANGED <<routeVars, maskVars, traceIdVars, sanVars, streamVars, rotVars, relayVars, rewriteVars, logReqVars, captureVars, fileLogVars>>

\* Time passes until the oldest eviction timer is due.
TimerWait ==
    /\ timers # <<>>
    /\ Head(timers).due > now
    /\ now' = Head(timers).due
    /\ UNCHANGED <<started, stopped, config, globalLevel, domainLevels, logBuffer,
                   traces, traceObj, timers, reqs, reloads>>
    /\ UNCHANGED <<routeVars, maskVars, traceIdVars, sanVars, streamVars, rotVars, relayVars, rewriteVars, logReqVars, captureVars, fileLogVars>>

\* Time passes; a timer that is due fires before time passes again.
Tick ==
    /\ started
    /\ now < MaxTicks * TickMs
    /\ IF timers = <<>> THEN TRUE ELSE Head(timers).due > now
    /\ now' = now + TickMs
    /\ UNCHANGED <<started, stopped, config, globalLevel, domainLevels, logBuffer,
                   traces, traceObj, timers, reqs, reloads>>
    /\ UNCHANGED <<routeVars, maskVars, traceIdVars, sanVars, streamVars, rotVars, relayVars, rewriteVars, logReqVars, captureVars, fileLogVars>>

\* One step of the handler of request r, where an upstream error has one
\* of the given codes.
RequestStep(r, codes) ==
    \/ HttpArrive(r)
    \/ CaptureSettled(r)
    \/ RouteLogged(r)
    \/ RewriteLogged(r)
    \/ NotFoundRespond(r)
    \/ DisabledRespond(r)
    \/ FaultRespond(r)
    \/ ProxyRes(r)
    \/ ResEnd(r)
    \/ EndLogged(r)
    \/ ProxyError(r, codes)
    \/ ErrorRespond(r)
    \/ WsUpgrade(r)
    \/ WsLogged(r)
    \/ WsRewriteLogged(r)
    \/ WsFaultDone(r)
    \/ WsOpen(r)
    \/ WsError(r)
    \/ WsClose(r)

\* The first request alone.
SoleRequest == {r \in RequestIds : \A q \in RequestIds : r <= q}

\* Concurrent requests against the configuration the server started with.
PipeNext ==
    \/ Start
    \/ EvictTimer
    \/ Tick
    \/ \E r \in RequestIds : RequestStep(r, RefusedOrTimeout)

\* The life of one request on a server that keeps running: its handler, a
\* client that may go away, and the eviction timers.
LifetimeNext ==
    \/ Start
    \/ EvictTimer
    \/ TimerWait
    \/ \E r \in SoleRequest : RequestStep(r, ErrorCodes) \/ ClientDisconnect(r)

\* One request or upgrade under any of the configurations, the minimal one
\* included.
MinimalNext ==
    \/ Start
    \/ StartMinimal
    \/ EvictTimer
    \/ TimerWait
    \/ \E r \in SoleRequest : RequestStep(r, ErrorCodes)

\* One request while the configuration file changes.
ReloadNext ==
    \/ Start
    \/ ConfigChanged
    \/ ConfigError
    \/ ConfigListenerError
    \/ Stop
    \/ EvictTimer
    \/ Tick
    \/ \E r \in SoleRequest : RequestStep(r, ErrorCodes)

----------------------------------------------------------------------------
(* Header capture: what of a request's and a response's headers reaches    *)
(* the trace record and the log.  A header object is the sequence of its   *)
(* entries in Object.entries order; a value may be undefined.  The colour  *)
(* codes that Colors puts around a message are left out of the messages.   *)

\* s.includes(t)
IncludesText(s, t) ==
    \E i \in 0..(Len(s) - Len(t)) : SubSeq(s, i + 1, i + Len(t)) = t

sensitiveHeaders ==
    << <<"a", "u", "t", "h", "o", "r", "i", "z", "a", "t", "i", "o", "n">>,
       <<"c", "o", "o", "k", "i", "e">>,
       <<"x", "-", "a", "p", "i", "-", "k", "e", "y">>,
       <<"x", "-", "a", "u", "t", "h", "-", "t", "o", "k", "e", "n">>,
       <<"x", "-", "a", "c", "c", "e", "s", "s", "-", "t", "o", "k", "e", "n">>,
       <<"p", "r", "o", "x", "y", "-", "a", "u", "t", "h", "o", "r", "i", "z", "a", "t", "i", "o", "n">> >>

\* A header is masked only when its lower-cased name is one of the listed names.
IsSensitiveExact(key) ==
    \E i \in 1..Len(sensitiveHeaders) : ToLowerCase(key) = sensitiveHeaders[i]

\* sensitiveHeaders.some(sensitive => key.toLowerCase().includes(sensitive))
isSensitive(key) ==
    \E i \in 1..Len(sensitiveHeaders) : IncludesText(ToLowerCase(key), sensitiveHeaders[i])

HeaderEntry(key, value) == [key |-> key, value |-> value]

\* TraceManager.sanitizeHeaders(headers): entries with a falsy value are skipped.
RECURSIVE TraceManager_sanitizeHeaders(_)
TraceManager_sanitizeHeaders(headers) ==
    IF headers = <<>> THEN <<>>
    ELSE LET h == Head(headers)
         IN  (IF Truthy(h.value)
              THEN <<HeaderEntry(h.key, Some(IF isSensitive(h.key)
                                             THEN maskSensitiveValue(Get(h.value))
                                             ELSE Get(h.value)))>>
              ELSE <<>>)
             \o TraceManager_sanitizeHeaders(Tail(headers))

\* BodyCapture.sanitizeHeaders(headers): every entry is kept; maskSensitiveValue
\* turns an undefined or empty value into [EMPTY].
RECURSIVE BodyCapture_sanitizeHeaders(_)
BodyCapture_sanitizeHeaders(headers) ==
    IF headers = <<>> THEN <<>>
    ELSE LET h == Head(headers)
         IN  <<HeaderEntry(h.key, IF isSensitive(h.key)
                                  THEN Some(BodyCapture_maskSensitiveValue(
                                                IF IsSome(h.value) THEN Get(h.value) ELSE <<>>))
                                  ELSE h.value)>>
             \o BodyCapture_sanitizeHeaders(Tail(headers))

Txt_undefined == <<"u", "n", "d", "e", "f", "i", "n", "e", "d">>

\* `  ${key}: ${headerValue}`
HeaderLine(h) ==
    <<" ", " ">> \o h.key \o <<":", " ">> \o (IF IsSome(h.value) THEN Get(h.value) ELSE Txt_undefined)

\* BodyCapture.formatHeaders(headers): the lines joined by "\n".
RECURSIVE formatHeaders(_)
formatHeaders(headers) ==
    IF headers = <<>> THEN <<>>
    ELSE IF Len(headers) = 1 THEN HeaderLine(headers[1])
    ELSE HeaderLine(headers[1]) \o <<"\n">> \o formatHeaders(Tail(headers))

Txt_RequestHeaders == <<"R", "e", "q", "u", "e", "s", "t", " ", "H", "e", "a", "d", "e", "r", "s", ":", "\n">>

Txt_ResponseHeaders == <<"R", "e", "s", "p", "o", "n", "s", "e", " ", "H", "e", "a", "d", "e", "r", "s", ":", "\n">>

\* The detail messages of Logger.logRequest for the headers of a trace.
HeaderMessages(trace, logHeaders) ==
    (IF logHeaders /\ Len(trace.headers) > 0
     THEN <<Txt_RequestHeaders \o formatHeaders(trace.headers)>>
     ELSE <<>>)
    \o (IF logHeaders /\ IsSome(trace.responseHeaders) /\ Len(Get(trace.responseHeaders)) > 0
        THEN <<Txt_ResponseHeaders \o formatHeaders(Get(trace.responseHeaders))>>
        ELSE <<>>)

\* Header names: the listed ones in several spellings, names that contain one,
\* and names that contain none.
SanNames ==
    { <<"a", "u", "t", "h", "o", "r", "i", "z", "a", "t", "i", "o", "n">>,
      <<"A", "u", "t", "h", "o", "r", "i", "z", "a", "t", "i", "o", "n">>,
      <<"s", "e", "t", "-", "c", "o", "o", "k", "i", "e">>,
      <<"x", "-", "a", "p", "i", "-", "k", "e", "y">>,
      <<"X", "-", "A", "u", "t", "h", "-", "T", "o", "k", "e", "n">>,
      <<"p", "r", "o", "x", "y", "-", "a", "u", "t", "h", "o", "r", "i", "z", "a", "t", "i", "o", "n">>,
      <<"x", "-", "u", "p", "s", "t", "r", "e", "a", "m", "-", "a", "u", "t", "h", "o", "r", "i", "z", "a", "t", "i", "o", "n", "-", "v", "2">>,
      <<"a", "c", "c", "e", "p", "t">>,
      <<"x", "-", "t", "r", "a", "c", "e", "-", "i", "d">> }

\* Values: a secret of every length up to MaxSecretLen, bare or after a scheme
\* prefix, and the values that already have the shape of a masked value.
SanPlain == {p \o SecretOfLen(n) : p \in {<<>>, Pre_Bearer}, n \in 0..MaxSecretLen}

AlreadyMasked == {maskSensitiveValue(v) : v \in SanPlain}

SanValues == {None} \cup {Some(v) : v \in SanPlain \cup AlreadyMasked}

Hdr_accept == HeaderEntry(<<"a", "c", "c", "e", "p", "t">>, Some(<<"*", "/", "*">>))

Hdr_contentType == HeaderEntry(<<"c", "o", "n", "t", "e", "n", "t", "-", "t", "y", "p", "e">>, Some(<<"t", "e", "x", "t", "/", "p", "l", "a", "i", "n">>))

NoTrace == [headers |-> <<>>, responseHeaders |-> None]

SanIdle ==
    /\ sanHeaders = <<>>
    /\ sanResHeaders = <<>>
    /\ sanLogHeaders = FALSE
    /\ sanTrace = NoTrace
    /\ sanLog = <<>>
    /\ sanPc = "idle"

\* A request or a response carries the header under study next to a harmless one.
SanInit ==
    /\ \E key \in SanNames, value \in SanValues, side \in {"request", "response"} :
          /\ sanHeaders = IF side = "request"
                          THEN <<Hdr_accept, HeaderEntry(key, value)>>
                          ELSE <<Hdr_accept>>
          /\ sanResHeaders = IF side = "response"
                             THEN <<Hdr_contentType, HeaderEntry(key, value)>>
                             ELSE <<Hdr_contentType>>
    /\ sanLogHeaders \in BOOLEAN
    /\ sanTrace = NoTrace
    /\ sanLog = <<>>
    /\ sanPc = "arrived"

\* TraceManager.startTrace: headers: this.sanitizeHeaders(req.headers)
TraceHeaders ==
    /\ sanPc = "arrived"
    /\ sanTrace' = [sanTrace EXCEPT !.headers = TraceManager_sanitizeHeaders(sanHeaders)]
    /\ sanPc' = "traced"
    /\ UNCHANGED <<sanHeaders, sanResHeaders, sanLogHeaders, sanLog>>
    /\ UNCHANGED <<routeVars, maskVars, traceIdVars, pipeVars, streamVars, rotVars, relayVars, rewriteVars, logReqVars, captureVars, fileLogVars>>

\* The proxyRes handler: the response headers are captured when the route or
\* the global configuration asks for them, and finishTrace stores them.
CaptureResponseHeaders ==
    /\ sanPc = "traced"
    /\ sanTrace' = [sanTrace EXCEPT !.responseHeaders =
                        IF sanLogHeaders
                        THEN Some(BodyCapture_sanitizeHeaders(sanResHeaders))
                        ELSE None]
    /\ sanPc' = "finished"
    /\ UNCHANGED <<sanHeaders, sanResHeaders, sanLogHeaders, sanLog>>
    /\ UNCHANGED <<routeVars, maskVars, traceIdVars, pipeVars, streamVars, rotVars, relayVars, rewriteVars, logReqVars, captureVars, fileLogVars>>

\* Logger.logRequest: the header details of the finished trace.
LogRequestHeaders ==
    /\ sanPc = "finished"
    /\ sanLog' = sanLog \o HeaderMessages(sanTrace, sanLogHeaders)
    /\ sanPc' = "logged"
    /\ UNCHANGED <<sanHeaders, sanResHeaders, sanLogHeaders, sanTrace>>
    /\ UNCHANGED <<routeVars, maskVars, traceIdVars, pipeVars, streamVars, rotVars, relayVars, rewriteVars, logReqVars, captureVars, fileLogVars>>

SanNext == TraceHeaders \/ CaptureResponseHeaders \/ LogRequestHeaders

----------------------------------------------------------------------------
(* Logger and LogStreamer with a log file and subscribers.  A message sent *)
(* to a subscriber is the entry together with the format it is printed in; *)
(* console output is left out.                                             *)

NumClients == 2

ClientIds == 1..NumClients

MaxLogs == 2

\* The query of a connecting subscriber: url.searchParams.get(...) of each
\* parameter, None when the parameter is not given.
Query(level, domain, format, follow, history) ==
    [level |-> level, domain |-> domain, format |-> format, follow |-> follow,
     history |-> history]

Queries ==
    { Query(None, None, None, None, None),
      Query(None, None, Some("json"), None, Some("true")),
      Query(Some("warn"), None, None, Some("true"), Some("true")),
      Query(None, Some(Str_x_dev_local), None, None, Some("true")),
      Query(Some("warn"), Some(Str_x_dev_local), None, None, Some("1")),
      Query(None, None, None, Some("false"), None),
      Query(None, None, None, Some("false"), Some("true")) }

\* The LogStreamOptions the connection handler builds from the query.
StreamOptions(q) ==
    [level |-> q.level,
     domain |-> q.domain,
     format |-> IF IsSome(q.format) THEN Get(q.format) ELSE "pretty",
     follow |-> q.follow # Some("false")]

\* LogStreamer.shouldIncludeLog(entry, options)
shouldIncludeLog(entry, options) ==
    /\ IsSome(options.level) =>
          ~(LevelIndexOf(entry.level) > LevelIndexOf(Get(options.level)))
    /\ ~(IsSome(options.domain) /\ entry.domain # options.domain)

\* LogStreamer.formatLogForClient(entry, options)
formatLogForClient(entry, options) == [format |-> options.format, entry |-> entry]

\* this.logBuffer.filter(entry => this.shouldIncludeLog(entry, options))
RECURSIVE FilterLogs(_, _)
FilterLogs(buffer, options) ==
    IF buffer = <<>> THEN <<>>
    ELSE (IF shouldIncludeLog(Head(buffer), options) THEN <<Head(buffer)>> ELSE <<>>)
         \o FilterLogs(Tail(buffer), options)

\* A history replay that does not filter.
SendWholeHistory(buffer, options, sent) ==
    [i \in 1..Min(sent, Len(buffer)) |-> formatLogForClient(buffer[i], options)]

\* LogStreamer.sendLogHistory(ws, options): the messages sent when the first
\* `sent` calls of ws.send succeed and the next one, if any, throws.
sendLogHistory(buffer, options, sent) ==
    [i \in 1..Min(sent, Len(FilterLogs(buffer, options))) |->
        formatLogForClient(FilterLogs(buffer, options)[i], options)]

NoSocket ==
    [readyState |-> "NONE", query |-> None, streamOptions |-> None, received |-> <<>>,
     sendFailed |-> FALSE, connectedAt |-> 0]

\* The global level and the override of x.dev.local, if any.
LevelConfig(global, override) ==
    [global |-> global,
     domains |-> IF IsSome(override) THEN MapSet(EmptyMap, Str_x_dev_local, Get(override))
                 ELSE EmptyMap]

LevelConfigs ==
    { LevelConfig("none", None), LevelConfig("error", None), LevelConfig("warn", None),
      LevelConfig("info", None), LevelConfig("debug", None),
      LevelConfig("debug", Some("none")), LevelConfig("none", Some("debug")),
      LevelConfig("info", Some("error")), LevelConfig("error", Some("info")) }

LogDomains == {None, Some(Str_x_dev_local), Some(Str_other_local)}

StreamIdle ==
    /\ clients = {}
    /\ sockets = [c \in ClientIds |-> NoSocket]
    /\ logFile = <<>>
    /\ pending = {}
    /\ logCall = [n |-> 0, level |-> "none", domain |-> None]

\* A Logger at any of the level configurations, nothing logged yet.
LoggerInit ==
    /\ ServerIdle
    /\ \E lc \in LevelConfigs :
          /\ globalLevel = lc.global
          /\ domainLevels = lc.domains
    /\ logBuffer = <<>>
    /\ StreamIdle

\* A Logger that admits every entry, nothing logged yet.
StreamInit ==
    /\ ServerIdle
    /\ globalLevel = "debug"
    /\ domainLevels = EmptyMap
    /\ logBuffer = <<>>
    /\ StreamIdle

\* The first subscriber connects with any of the queries, the others with none.
QueriesOf(c) == IF c = 1 THEN Queries ELSE {Query(None, None, None, None, None)}

\* The 'connection' handler of the WebSocket server, whole: the subscriber is
\* added, the history is replayed if asked for, the options are stored.
Connect(c) ==
    /\ sockets[c].readyState = "NONE"
    /\ \E q \in QueriesOf(c) :
          LET options == StreamOptions(q)
              filtered == IF q.history = Some("true") THEN FilterLogs(logBuffer, options)
                          ELSE <<>>
          IN  \E sent \in 0..Len(filtered) :
                 sockets' = [sockets EXCEPT ![c] =
                                [readyState |-> "OPEN",
                                 query |-> Some(q),
                                 streamOptions |-> Some(options),
                                 received |-> IF q.history = Some("true")
                                              THEN sendLogHistory(logBuffer, options, sent)
                                              ELSE <<>>,
                                 sendFailed |-> sent < Len(filtered),
                                 connectedAt |-> logCall.n]]
    /\ clients' = clients \cup {c}
    /\ UNCHANGED <<logFile, pending, logCall>>
    /\ UNCHANGED <<globalLevel, domainLevels, logBuffer>>
    /\ UNCHANGED <<started, stopped, config, traces, traceObj, timers, now, reqs, reloads>>
    /\ UNCHANGED <<routeVars, maskVars, traceIdVars, sanVars, rotVars, relayVars, rewriteVars, logReqVars, captureVars, fileLogVars>>

\* The transport starts closing: readyState is no longer OPEN, the 'close'
\* event has not been emitted yet.
SocketClosing(c) ==
    /\ sockets[c].readyState = "OPEN"
    /\ sockets' = [sockets EXCEPT ![c].readyState = "CLOSING"]
    /\ UNCHANGED <<clients, logFile, pending, logCall>>
    /\ UNCHANGED <<globalLevel, domainLevels, logBuffer>>
    /\ UNCHANGED <<started, stopped, config, traces, traceObj, timers, now, reqs, reloads>>
    /\ UNCHANGED <<routeVars, maskVars, traceIdVars, sanVars, rotVars, relayVars, rewriteVars, logReqVars, captureVars, fileLogVars>>

\* ws.on('close', ...)
OnClose(c) ==
    /\ sockets[c].readyState = "CLOSING"
    /\ sockets' = [sockets EXCEPT ![c].readyState = "CLOSED"]
    /\ clients' = clients \ {c}
    /\ UNCHANGED <<logFile, pending, logCall>>
    /\ UNCHANGED <<globalLevel, domainLevels, logBuffer>>
    /\ UNCHANGED <<started, stopped, config, traces, traceObj, timers, now, reqs, reloads>>
    /\ UNCHANGED <<routeVars, maskVars, traceIdVars, sanVars, rotVars, relayVars, rewriteVars, logReqVars, captureVars, fileLogVars>>

\* ws.on('error', ...): the socket is closing from then on.
OnError(c) ==
    /\ sockets[c].readyState = "OPEN"
    /\ sockets' = [sockets EXCEPT ![c].readyState = "CLOSING"]
    /\ clients' = clients \ {c}
    /\ UNCHANGED <<logFile, pending, logCall>>
    /\ UNCHANGED <<globalLevel, domainLevels, logBuffer>>
    /\ UNCHANGED <<started, stopped, config, traces, traceObj, timers, now, reqs, reloads>>
    /\ UNCHANGED <<routeVars, maskVars, traceIdVars, sanVars, rotVars, relayVars, rewriteVars, logReqVars, captureVars, fileLogVars>>

\* Logger.log(level, message, traceId, domain) up to the await in streamLog:
\* a rejected entry returns at once, an admitted one is pushed to the buffer
\* and its write to the log file is started.  The n-th call logs under the
\* trace id n.
LogCall(callLevels, callDomains) ==
    /\ logCall.n < MaxLogs
    /\ \E level \in callLevels, domain \in callDomains :
          LET entry == LogEntry(level, NumberToString(logCall.n + 1), "m", domain)
          IN  /\ logCall' = [n |-> logCall.n + 1, level |-> level, domain |-> domain]
              /\ logBuffer' = log(logBuffer, level, "m", NumberToString(logCall.n + 1), domain)
              /\ pending' = IF shouldLog(level, domain) THEN pending \cup {entry} ELSE pending
    /\ UNCHANGED <<clients, sockets, logFile>>
    /\ UNCHANGED <<globalLevel, domainLevels>>
    /\ UNCHANGED <<started, stopped, config, traces, traceObj, timers, now, reqs, reloads>>
    /\ UNCHANGED <<routeVars, maskVars, traceIdVars, sanVars, rotVars, relayVars, rewriteVars, logReqVars, captureVars, fileLogVars>>

\* The subscribers broadcastToClients finds not OPEN.
DeadClients == {c \in clients : sockets[c].readyState # "OPEN"}

\* The subscribers broadcastToClients calls send for.
SendTargets(entry) ==
    {c \in clients \ DeadClients : shouldIncludeLog(entry, Get(sockets[c].streamOptions))}

\* LogStreamer.broadcastToClients(entry), where send throws for `failing`.
broadcastToClients(entry, failing) ==
    /\ sockets' = [c \in ClientIds |->
                      IF c \in failing
                      THEN [sockets[c] EXCEPT !.sendFailed = TRUE]
                      ELSE IF c \in SendTargets(entry)
                      THEN [sockets[c] EXCEPT !.received =
                               Append(@, formatLogForClient(entry, Get(sockets[c].streamOptions)))]
                      ELSE sockets[c]]
    /\ clients' = clients \ (DeadClients \cup failing)

\* fs.appendFile completes for one of the entries being written; streamLog
\* resumes and broadcasts the entry.
FileWritten ==
    /\ \E entry \in pending :
          /\ logFile' = Append(logFile, entry)
          /\ pending' = pending \ {entry}
          /\ \E failing \in SUBSET SendTargets(entry) : broadcastToClients(entry, failing)
    /\ UNCHANGED logCall
    /\ UNCHANGED <<globalLevel, domainLevels, logBuffer>>
    /\ UNCHANGED <<started, stopped, config, traces, traceObj, timers, now, reqs, reloads>>
    /\ UNCHANGED <<routeVars, maskVars, traceIdVars, sanVars, rotVars, relayVars, rewriteVars, logReqVars, captureVars, fileLogVars>>

\* Log calls of every level at every level configuration, one subscriber.
LoggerNext ==
    \/ LogCall({levels[i] : i \in 1..Len(levels)}, LogDomains)
    \/ FileWritten
    \/ Connect(NumClients)

StreamNext ==
    \/ LogCall({"error", "info"}, {None, Some(Str_x_dev_local)})
    \/ FileWritten
    \/ \E c \in ClientIds : Connect(c)
    \/ \E c \in ClientIds : SocketClosing(c)
    \/ \E c \in ClientIds : OnClose(c)
    \/ \E c \in ClientIds : OnError(c)

----------------------------------------------------------------------------
(* The LogBuffer of a streamer without log file and without subscribers,   *)
(* filled by a Logger at level 'info'.                                     *)

MaxPushes == 1002

BufferInit ==
    /\ ServerIdle
    /\ globalLevel = "info"
    /\ domainLevels = EmptyMap
    /\ logBuffer = <<>>
    /\ StreamIdle

\* Logger.log -> LogStreamer.streamLog(entry), which runs to its end at once:
\* no file to write, nobody to broadcast to.  The n-th call logs under the
\* trace id n.
Push ==
    /\ logCall.n < MaxPushes
    /\ logCall' = [n |-> logCall.n + 1, level |-> "info", domain |-> None]
    /\ logBuffer' = log(logBuffer, "info", "m", NumberToString(logCall.n + 1), None)
    /\ UNCHANGED <<clients, sockets, logFile, pending>>
    /\ UNCHANGED <<globalLevel, domainLevels>>
    /\ UNCHANGED <<started, stopped, config, traces, traceObj, timers, now, reqs, reloads>>
    /\ UNCHANGED <<routeVars, maskVars, traceIdVars, sanVars, rotVars, relayVars, rewriteVars, logReqVars, captureVars, fileLogVars>>

BufferNext == Push

----------------------------------------------------------------------------
(* LogRotation.  The directory maps the log path (name 0) and its backups  *)
(* path.K (name K) to files; a file keeps its content when it is renamed,  *)
(* and a stream writes to the file it was opened on.  The content of a     *)
(* file is the sequence of the data written to it, each with its size in   *)
(* bytes.  Several calls of write() can be in progress: each file system   *)
(* operation awaited by rotateFiles completes in a step of its own.        *)

MaxKeep == 3

MaxFileSize == 2

MaxWrites == 4

NumWriters == 2

WriterIds == 1..NumWriters

Names == 0..MaxKeep

\* Buffer.byteLength(data) of the data written: a short line, or one that is
\* larger than a whole file may be.
DataSizes == {1, MaxFileSize + 1}

Data(id, size) == [id |-> id, size |-> size]

\* The content of every name of the directory, None where there is no file.
Contents(dir, files) == [k \in Names |-> IF dir[k] = 0 THEN None ELSE Some(files[dir[k]])]

\* A call of write(): where it is, its data, the loop variable of rotateFiles,
\* whether it rotates, and what the directory held when its rotation started.
IdleWriter ==
    [pc |-> "idle", data |-> Data(0, 0), i |-> 0, rotated |-> FALSE,
     before |-> [k \in Names |-> None]]

\* A check that rotates as soon as the limit is reached.
NeedsRotationAtLimit(size, dataSize) == size + dataSize >= MaxFileSize

\* this.currentSize + dataSize > this.config.maxFileSize
needsRotation(size, dataSize) == size + dataSize > MaxFileSize

RotIdle ==
    /\ maxFiles = 0
    /\ names = [k \in Names |-> 0]
    /\ inodes = <<>>
    /\ writeStream = [ino |-> 0, ended |-> TRUE]
    /\ currentSize = 0
    /\ writers = [w \in WriterIds |-> IdleWriter]
    /\ writeCount = 0
    /\ rotations = 0
    /\ writeAfterEnd = FALSE

\* After initialize(): the log file exists, empty or with what an earlier run
\* left, currentSize is its size and the stream appends to it.
RotInit ==
    /\ maxFiles \in 1..MaxKeep
    /\ names = [k \in Names |-> IF k = 0 THEN 1 ELSE 0]
    /\ \E size \in 0..MaxFileSize :
          /\ inodes = <<IF size = 0 THEN <<>> ELSE <<Data(0, size)>>>>
          /\ currentSize = size
    /\ writeStream = [ino |-> 1, ended |-> FALSE]
    /\ writers = [w \in WriterIds |-> IdleWriter]
    /\ writeCount = 0
    /\ rotations = 0
    /\ writeAfterEnd = FALSE

\* fs.rename(from, to) on the directory; an error (no such file) is ignored.
Rename(dir, from, to) ==
    IF dir[from] = 0 THEN dir
    ELSE [dir EXCEPT ![to] = dir[from], ![from] = 0]

\* The end of rotate() and of write() once rotateFiles has left the directory
\* as dir: createWriteStream(path, 'w') truncates or creates the file, the
\* size counter is reset, the data is written and counted.
FinishRotation(w, dir) ==
    /\ IF dir[0] # 0
       THEN /\ inodes' = [inodes EXCEPT ![dir[0]] = <<writers[w].data>>]
            /\ names' = dir
            /\ writeStream' = [ino |-> dir[0], ended |-> FALSE]
       ELSE /\ inodes' = Append(inodes, <<writers[w].data>>)
            /\ names' = [dir EXCEPT ![0] = Len(inodes) + 1]
            /\ writeStream' = [ino |-> Len(inodes) + 1, ended |-> FALSE]
    /\ currentSize' = writers[w].data.size
    /\ rotations' = rotations + 1
    /\ writers' = [writers EXCEPT ![w].pc = "idle"]
    /\ UNCHANGED writeAfterEnd

\* LogRotation.write(data) up to its first await: without rotation the data
\* is written and counted at once; with rotation the stream is ended and
\* rotateFiles starts by unlinking the oldest backup.
Write(w) ==
    /\ writers[w].pc = "idle"
    /\ \A v \in WriterIds : v < w => writers[v].pc # "idle"
    /\ writeCount < MaxWrites
    /\ writeCount' = writeCount + 1
    /\ \E size \in DataSizes :
          IF needsRotation(currentSize, size)
          THEN /\ writers' = [writers EXCEPT ![w] =
                                 [pc |-> "unlink", data |-> Data(writeCount + 1, size),
                                  i |-> 0, rotated |-> TRUE,
                                  before |-> Contents(names, inodes)]]
               /\ writeStream' = [writeStream EXCEPT !.ended = TRUE]
               /\ UNCHANGED <<inodes, currentSize, writeAfterEnd>>
          ELSE /\ writers' = [writers EXCEPT ![w] =
                                 [pc |-> "idle", data |-> Data(writeCount + 1, size),
                                  i |-> 0, rotated |-> FALSE,
                                  before |-> Contents(names, inodes)]]
               /\ IF writeStream.ended
                  THEN /\ writeAfterEnd' = TRUE
                       /\ UNCHANGED inodes
                  ELSE /\ inodes' = [inodes EXCEPT ![writeStream.ino] =
                                        Append(@, Data(writeCount + 1, size))]
                       /\ UNCHANGED writeAfterEnd
               /\ currentSize' = currentSize + size
               /\ UNCHANGED writeStream
    /\ UNCHANGED <<maxFiles, names, rotations>>
    /\ UNCHANGED <<routeVars, maskVars, traceIdVars, pipeVars, sanVars, streamVars, relayVars, rewriteVars, logReqVars, captureVars, fileLogVars>>

\* fs.unlink of path.maxFiles completes; the loop of rotateFiles starts at
\* i = maxFiles - 1, or rotate() ends when there is nothing to rename.
UnlinkDone(w) ==
    /\ writers[w].pc = "unlink"
    /\ IF maxFiles - 1 >= 1
       THEN /\ names' = [names EXCEPT ![maxFiles] = 0]
            /\ writers' = [writers EXCEPT ![w].pc = "rename", ![w].i = maxFiles - 1]
            /\ UNCHANGED <<inodes, writeStream, currentSize, rotations, writeAfterEnd>>
       ELSE FinishRotation(w, [names EXCEPT ![maxFiles] = 0])
    /\ UNCHANGED <<maxFiles, writeCount>>
    /\ UNCHANGED <<routeVars, maskVars, traceIdVars, pipeVars, sanVars, streamVars, relayVars, rewriteVars, logReqVars, captureVars, fileLogVars>>

\* fs.rename(currentFile, nextFile) of the loop completes: currentFile is the
\* log file itself when i = 1 and path.i otherwise, nextFile is path.(i+1).
RenameDone(w) ==
    /\ writers[w].pc = "rename"
    /\ LET i == writers[w].i
           dir == Rename(names, IF i = 1 THEN 0 ELSE i, i + 1)
       IN  IF i - 1 >= 1
           THEN /\ names' = dir
                /\ writers' = [writers EXCEPT ![w].i = i - 1]
                /\ UNCHANGED <<inodes, writeStream, currentSize, rotations, writeAfterEnd>>
           ELSE FinishRotation(w, dir)
    /\ UNCHANGED <<maxFiles, writeCount>>
    /\ UNCHANGED <<routeVars, maskVars, traceIdVars, pipeVars, sanVars, streamVars, relayVars, rewriteVars, logReqVars, captureVars, fileLogVars>>

RotNext ==
    \/ \E w \in WriterIds : Write(w)
    \/ \E w \in WriterIds : UnlinkDone(w)
    \/ \E w \in WriterIds : RenameDone(w)

----------------------------------------------------------------------------
(* The relay of an upstream response.  http-proxy emits 'proxyRes' and     *)
(* then, as createProxy does not set selfHandleResponse, pipes proxyRes    *)
(* into the client response itself.  The 'proxyRes' listener of            *)
(* proxyRequest may add a second path: proxyRes into captureStream, and    *)
(* captureStream into the same client response.  A chunk is a piece of the *)
(* upstream body with its number and its length in bytes.                  *)

MaxChunks == 3

MaxRelayTicks == 2

\* const maxSize = 1024 * 1024
maxSize == 1024 * 1024

\* chunk.length: a small chunk, or one that fills the capture limit.
ChunkSizes == {1, maxSize}

Chunk(id, size) == [id |-> id, size |-> size]

\* The bodies an upstream sends: up to MaxChunks chunks, numbered in order.
Bodies ==
    UNION { { [i \in 1..n |-> Chunk(i, sizes[i])] : sizes \in [1..n -> ChunkSizes] }
            : n \in 0..MaxChunks }

Ct_json == <<"a", "p", "p", "l", "i", "c", "a", "t", "i", "o", "n", "/", "j", "s", "o", "n">>

Ct_xml == <<"a", "p", "p", "l", "i", "c", "a", "t", "i", "o", "n", "/", "x", "m", "l">>

Ct_text == <<"t", "e", "x", "t", "/">>

Ct_form == <<"a", "p", "p", "l", "i", "c", "a", "t", "i", "o", "n", "/", "x", "-", "w", "w", "w", "-", "f", "o", "r", "m", "-", "u", "r", "l", "e", "n", "c", "o", "d", "e", "d">>

Ct_graphql == <<"a", "p", "p", "l", "i", "c", "a", "t", "i", "o", "n", "/", "g", "r", "a", "p", "h", "q", "l">>

Ct_TextHtml == <<"T", "e", "x", "t", "/", "H", "T", "M", "L">>

Ct_png == <<"i", "m", "a", "g", "e", "/", "p", "n", "g">>

textTypes == <<Ct_json, Ct_xml, Ct_text, Ct_form, Ct_graphql>>

\* BodyCapture.shouldLogBody(contentType)
shouldLogBody(contentType) ==
    IF ~Truthy(contentType) THEN TRUE
    ELSE \E i \in 1..Len(textTypes) :
            IncludesText(ToLowerCase(Get(contentType)), textTypes[i])

\* route.logResponseBody ?? this.config.global.logResponseBody ?? false
shouldCaptureResponseBody(routeFlag, globalFlag) ==
    IF IsSome(routeFlag) THEN Get(routeFlag)
    ELSE IF IsSome(globalFlag) THEN Get(globalFlag)
    ELSE FALSE

\* The values getBody resolves with: a marker, or the text of the chunks kept.
Body(kind, chunks) == [kind |-> kind, chunks |-> chunks]

\* A transform that keeps every chunk whatever the total size.
TransformKeepAll(capture, chunk) ==
    [chunks |-> Append(capture.chunks, chunk),
     totalSize |-> capture.totalSize + chunk.size]

\* captureStream's transform(chunk, encoding, callback): count, keep the chunk
\* while the total is within maxSize; the chunk itself is passed on.
Transform(capture, chunk) ==
    LET totalSize == capture.totalSize + chunk.size
    IN  [chunks |-> IF totalSize <= maxSize THEN Append(capture.chunks, chunk)
                    ELSE capture.chunks,
         totalSize |-> totalSize]

\* A getBody that resolves with the chunks kept, whatever the total size.
GetBodyKept(capture) ==
    IF Len(capture.chunks) = 0 THEN Body("[Empty response body]", <<>>)
    ELSE Body("text", capture.chunks)

\* getBody()
getBody(capture) ==
    IF capture.totalSize > maxSize THEN Body("[Response body too large - truncated]", <<>>)
    ELSE IF Len(capture.chunks) = 0 THEN Body("[Empty response body]", <<>>)
    ELSE Body("text", capture.chunks)

RelayInputs ==
    [body : Bodies, statusCode : {0, 200, 404},
     routeFlag : {None, Some(TRUE), Some(FALSE)},
     globalFlag : {None, Some(TRUE)},
     contentType : {None, Some(Ct_json), Some(Ct_TextHtml), Some(Ct_png)},
     tracing : BOOLEAN]

RelayIdle ==
    /\ rlIn = [body |-> <<>>, statusCode |-> 0, routeFlag |-> None, globalFlag |-> None,
               contentType |-> None, tracing |-> FALSE]
    /\ rlPc = "idle" /\ rlSent = 0 /\ rlCapture = None /\ rlQueue = <<>>
    /\ rlRes = <<>> /\ rlResEnded = FALSE /\ rlNow = 0
    /\ rlTrace = None /\ rlLog = <<>> /\ rlLate = <<>>

\* proxy.web(req, res) has been called at time 0 (trace.timestamp) and the
\* upstream response has not arrived yet.
RelayInit ==
    /\ rlIn \in RelayInputs
    /\ rlPc = "proxying" /\ rlSent = 0 /\ rlCapture = None /\ rlQueue = <<>>
    /\ rlRes = <<>> /\ rlResEnded = FALSE /\ rlNow = 0
    /\ rlTrace = None /\ rlLog = <<>> /\ rlLate = <<>>

RelayUnchanged ==
    UNCHANGED <<routeVars, maskVars, traceIdVars, pipeVars, sanVars, streamVars, rotVars, rewriteVars, logReqVars, captureVars, fileLogVars>>

\* Time passes.
RelayTick ==
    /\ rlPc \in {"proxying", "streaming"}
    /\ rlNow < MaxRelayTicks
    /\ rlNow' = rlNow + 1
    /\ UNCHANGED <<rlIn, rlPc, rlSent, rlCapture, rlQueue, rlRes, rlResEnded, rlTrace,
                   rlLog, rlLate>>
    /\ RelayUnchanged

\* 'proxyRes': the listener of proxyRequest sets up the capture when the flag
\* and the content type ask for it; http-proxy then pipes proxyRes into res.
RelayProxyRes ==
    /\ rlPc = "proxying"
    /\ rlPc' = "streaming"
    /\ rlCapture' = IF /\ shouldCaptureResponseBody(rlIn.routeFlag, rlIn.globalFlag)
                       /\ shouldLogBody(rlIn.contentType)
                    THEN Some([chunks |-> <<>>, totalSize |-> 0])
                    ELSE None
    /\ UNCHANGED <<rlIn, rlSent, rlQueue, rlRes, rlResEnded, rlNow, rlTrace, rlLog, rlLate>>
    /\ RelayUnchanged

\* res.write(chunk) by one of the pipes.
ResWrite(res, chunk, via) == Append(res, [id |-> chunk.id, via |-> via])

\* proxyRes emits 'data': each pipe writes the chunk to its destination, in
\* the order the pipes were set up (captureStream, then res).
RelayData ==
    /\ rlPc = "streaming"
    /\ rlSent < Len(rlIn.body)
    /\ LET chunk == rlIn.body[rlSent + 1]
       IN  /\ rlSent' = rlSent + 1
           /\ IF IsSome(rlCapture)
              THEN /\ rlCapture' = Some(Transform(Get(rlCapture), chunk))
                   /\ rlQueue' = Append(rlQueue, chunk)
              ELSE UNCHANGED <<rlCapture, rlQueue>>
           /\ rlRes' = ResWrite(rlRes, chunk, "proxyRes")
    /\ UNCHANGED <<rlIn, rlPc, rlResEnded, rlNow, rlTrace, rlLog, rlLate>>
    /\ RelayUnchanged

\* captureStream emits 'data': its pipe writes the chunk to res.
RelayFlow ==
    /\ rlQueue # <<>>
    /\ rlQueue' = Tail(rlQueue)
    /\ IF rlResEnded
       THEN /\ rlLate' = Append(rlLate, Head(rlQueue).id)
            /\ UNCHANGED rlRes
       ELSE /\ rlRes' = ResWrite(rlRes, Head(rlQueue), "captureStream")
            /\ UNCHANGED rlLate
    /\ UNCHANGED <<rlIn, rlPc, rlSent, rlCapture, rlResEnded, rlNow, rlTrace, rlLog>>
    /\ RelayUnchanged

\* proxyRes emits 'end': the pipes end captureStream and res, and the 'end'
\* listener of proxyRequest takes the captured body, finishes the trace and,
\* with tracing on, hands the record to logRequest.
RelayEnd ==
    /\ rlPc = "streaming"
    /\ rlSent = Len(rlIn.body)
    /\ LET statusCode == IF rlIn.statusCode = 0 THEN 200 ELSE rlIn.statusCode
           responseBody == IF IsSome(rlCapture) THEN Some(getBody(Get(rlCapture))) ELSE None
           record == [statusCode |-> statusCode, duration |-> rlNow,
                      responseBody |-> responseBody]
       IN  /\ rlTrace' = Some(record)
           /\ rlLog' = IF rlIn.tracing THEN Append(rlLog, record) ELSE rlLog
    /\ rlResEnded' = TRUE
    /\ rlPc' = "ended"
    /\ UNCHANGED <<rlIn, rlSent, rlCapture, rlQueue, rlRes, rlNow, rlLate>>
    /\ RelayUnchanged

RelayNext ==
    \/ RelayTick
    \/ RelayProxyRes
    \/ RelayData
    \/ RelayFlow
    \/ RelayEnd

----------------------------------------------------------------------------
(* Path rewriting alone: the replacement of proxyRequest and the one of    *)
(* handleWebSocketUpgrade applied to bounded routes and URLs.              *)

P_a == <<"/", "a">>

\* Routes with and without a path field and a pathReplace field, under a key
\* without and with a path suffix.
RewriteEntries ==
    { Entry(key, RouteConfig(T1, path, pathReplace, Some(TRUE), None)) :
        key \in {Str_api_local, WithPath(Str_api_local, P_api)},
        path \in {None, Some(<<>>), Some(P_api), Some(P_a)},
        pathReplace \in {None, Some(<<>>), Some(P_v2), Some(<<"/">>)} }

RewriteUrls == {<<>>, <<"/">>, P_api, P_api_users, P_other}

RewriteIdle ==
    /\ rwEntry = Entry(<<>>, NullRoute)
    /\ rwUrl = <<>>
    /\ rwOut = <<"idle">>

RewriteInit ==
    /\ rwEntry \in RewriteEntries
    /\ rwUrl \in RewriteUrls
    /\ rwOut = <<"pending">>

\* proxyRequest: the path replacement before the request is forwarded.
RewriteHttp ==
    /\ rwOut = <<"pending">>
    /\ rwOut' = <<"http", Rewrite(rwEntry, rwUrl)>>
    /\ UNCHANGED <<rwEntry, rwUrl>>
    /\ UNCHANGED <<routeVars, maskVars, traceIdVars, pipeVars, sanVars, streamVars, rotVars, relayVars, logReqVars, captureVars, fileLogVars>>

\* handleWebSocketUpgrade: the path replacement of the upgrade URL.
RewriteWs ==
    /\ rwOut = <<"pending">>
    /\ rwOut' = <<"ws", Rewrite(rwEntry, rwUrl)>>
    /\ UNCHANGED <<rwEntry, rwUrl>>
    /\ UNCHANGED <<routeVars, maskVars, traceIdVars, pipeVars, sanVars, streamVars, rotVars, relayVars, logReqVars, captureVars, fileLogVars>>

RewriteNext ==
    \/ RewriteHttp
    \/ RewriteWs

----------------------------------------------------------------------------
(* Logger.logRequest.  It logs the summary, and then looks at the four     *)
(* details in turn; every log call is awaited, so the function runs from   *)
(* one log call to the next in a step of its own.  A stage is 1 for the    *)
(* summary and 2..5 for request headers, request body, response headers    *)
(* and response body.                                                      *)

DetailStages == 2..5

LastStage == 5

Flags(requestHeaders, requestBody, responseHeaders, responseBody) ==
    [logRequestHeaders |-> requestHeaders, logRequestBody |-> requestBody,
     logResponseHeaders |-> responseHeaders, logResponseBody |-> responseBody]

FlagOf(flags, stage) ==
    CASE stage = 2 -> flags.logRequestHeaders
      [] stage = 3 -> flags.logRequestBody
      [] stage = 4 -> flags.logResponseHeaders
      [] stage = 5 -> flags.logResponseBody

\* A detail is logged whatever the route says when the global flag is set.
ShouldLogDetailGlobalFirst(route, globalConfig, stage) ==
    IF IsSome(globalConfig) /\ IsSome(FlagOf(Get(globalConfig), stage))
    THEN Get(FlagOf(Get(globalConfig), stage))
    ELSE IF IsSome(route) /\ IsSome(FlagOf(Get(route), stage))
    THEN Get(FlagOf(Get(route), stage))
    ELSE FALSE

\* route?.logX ?? globalConfig?.logX ?? false
ShouldLogDetail(route, globalConfig, stage) ==
    IF IsSome(route) /\ IsSome(FlagOf(Get(route), stage))
    THEN Get(FlagOf(Get(route), stage))
    ELSE IF IsSome(globalConfig) /\ IsSome(FlagOf(Get(globalConfig), stage))
    THEN Get(FlagOf(Get(globalConfig), stage))
    ELSE FALSE

\* The condition on the trace under which a detail is logged: headers that are
\* there and have a key, a body that is there and not the empty string.
DetailData(trace, stage) ==
    CASE stage = 2 -> IsSome(trace.headers) /\ Len(Get(trace.headers)) > 0
      [] stage = 3 -> Truthy(trace.requestBody)
      [] stage = 4 -> IsSome(trace.responseHeaders) /\ Len(Get(trace.responseHeaders)) > 0
      [] stage = 5 -> Truthy(trace.responseBody)

\* The stages after `stage` whose detail logRequest logs.
DetailsAfter(trace, route, globalConfig, stage) ==
    { k \in DetailStages :
        /\ k > stage
        /\ ShouldLogDetail(route, globalConfig, k)
        /\ DetailData(trace, k) }

\* The log call of a stage: what it is about and the data it formats.
LogRequestCall(trace, stage) ==
    CASE stage = 1 -> [about |-> "summary", data |-> Some(trace.url)]
      [] stage = 2 -> [about |-> "Request Headers:",
                       data |-> Some(formatHeaders(Get(trace.headers)))]
      [] stage = 3 -> [about |-> "Request Body:", data |-> trace.requestBody]
      [] stage = 4 -> [about |-> "Response Headers:",
                       data |-> Some(formatHeaders(Get(trace.responseHeaders)))]
      [] stage = 5 -> [about |-> "Response Body:", data |-> trace.responseBody]

Txt_body == <<"{", "}">>

\* The traces handed to logRequest: headers, bodies and response headers that
\* are absent, empty or filled.
LogReqTraces ==
    [url : {P_api_users},
     headers : {Some(<<>>), Some(<<Hdr_accept>>)},
     requestBody : {None, Some(<<>>), Some(Txt_body)},
     responseHeaders : {None, Some(<<>>), Some(<<Hdr_contentType>>)},
     responseBody : {None, Some(<<>>), Some(Txt_body)}]

OptionalFlag == {None, Some(TRUE), Some(FALSE)}

\* The route argument: every combination of the four optional flags.
LogReqRoutes ==
    { Some(Flags(a, b, c, e)) : a \in OptionalFlag, b \in OptionalFlag,
                                c \in OptionalFlag, e \in OptionalFlag }

\* The globalConfig argument: each flag absent or set.
LogReqGlobals ==
    { Some(Flags(a, b, c, e)) : a \in {None, Some(TRUE)}, b \in {None, Some(TRUE)},
                                c \in {None, Some(TRUE)}, e \in {None, Some(TRUE)} }

LogReqIdle ==
    /\ lrTrace = [url |-> <<>>, headers |-> None, requestBody |-> None,
                  responseHeaders |-> None, responseBody |-> None]
    /\ lrRoute = None
    /\ lrGlobal = None
    /\ lrStage = 0
    /\ lrOut = <<>>

LogReqInit ==
    /\ lrTrace \in LogReqTraces
    /\ lrRoute \in LogReqRoutes \cup {None}
    /\ lrGlobal \in LogReqGlobals
    /\ lrStage = 0
    /\ lrOut = <<>>

\* logRequest up to `await this.log(level, message, ...)`: the summary.
LogReqSummary ==
    /\ lrStage = 0
    /\ lrOut' = Append(lrOut, LogRequestCall(lrTrace, 1))
    /\ lrStage' = 1
    /\ UNCHANGED <<lrTrace, lrRoute, lrGlobal>>
    /\ UNCHANGED <<routeVars, maskVars, traceIdVars, pipeVars, sanVars, streamVars, rotVars, relayVars, rewriteVars, captureVars, fileLogVars>>

\* logRequest after an awaited log call: on to the next detail that is to be
\* logged, or to the end.
LogReqContinue ==
    /\ lrStage \in 1..LastStage
    /\ LET rest == DetailsAfter(lrTrace, lrRoute, lrGlobal, lrStage)
       IN  IF rest = {}
           THEN /\ lrStage' = LastStage + 1
                /\ UNCHANGED lrOut
           ELSE LET next == CHOOSE k \in rest : \A j \in rest : k <= j
                IN  /\ lrStage' = next
                    /\ lrOut' = Append(lrOut, LogRequestCall(lrTrace, next))
    /\ UNCHANGED <<lrTrace, lrRoute, lrGlobal>>
    /\ UNCHANGED <<routeVars, maskVars, traceIdVars, pipeVars, sanVars, streamVars, rotVars, relayVars, rewriteVars, captureVars, fileLogVars>>

LogReqNext ==
    \/ LogReqSummary
    \/ LogReqContinue


----------------------------------------------------------------------------
(* The capture of a request body.  handleRequest awaits                    *)
(* BodyCapture.captureRequestBody(req), which listens to 'data', 'end' and *)
(* 'error' of req and sets a timer of 100 ms, and later hands req to       *)
(* proxy.web, which pipes it into the request to the target.  The client   *)
(* sends the chunks of a body and then ends the stream, or stalls, or the  *)
(* stream fails.                                                           *)

Txt_TooLarge == "[Request body too large - truncated]"

Txt_EmptyBody == "[Empty request body]"

Txt_CaptureFailed == "[Failed to capture request body]"

\* What req does once it has emitted its chunks.
StreamFates == {"end", "stall", "error"}

CaptureInputs == [body : Bodies, fate : StreamFates, tracing : BOOLEAN]

NewCapture == [chunks |-> <<>>, totalSize |-> 0, result |-> None]

\* resolve(value): the first settlement of a promise is its result.
CapResolve(cap, value) ==
    IF IsSome(cap.result) THEN cap
    ELSE [cap EXCEPT !.result = Some([kind |-> "resolve", value |-> value])]

\* reject(error)
CapReject(cap) ==
    IF IsSome(cap.result) THEN cap
    ELSE [cap EXCEPT !.result = Some([kind |-> "reject", value |-> Body("error", <<>>)])]

\* req.on('data', ...)
captureOnData(cap, chunk) ==
    LET counted == [cap EXCEPT !.totalSize = @ + chunk.size]
    IN  IF counted.totalSize > maxSize THEN CapResolve(counted, Body(Txt_TooLarge, <<>>))
        ELSE [counted EXCEPT !.chunks = Append(@, chunk)]

\* req.on('end', ...): body || '[Empty request body]'
captureOnEnd(cap) ==
    CapResolve(cap, IF cap.chunks = <<>> THEN Body(Txt_EmptyBody, <<>>)
                    ELSE Body("text", cap.chunks))

\* req.on('error', ...)
captureOnError(cap) == CapReject(cap)

\* The callback of setTimeout(..., 100)
captureOnTimer(cap) ==
    IF Len(cap.chunks) = 0 THEN CapResolve(cap, Body(Txt_EmptyBody, <<>>)) ELSE cap

\* req.pipe(proxyReq) of proxy.web: the request to the target is open while req
\* is, is ended when req has ended, and is aborted when req has failed.
PipeTo(upstream, stream) ==
    [upstream EXCEPT !.state = IF stream = "open" THEN "open"
                               ELSE IF stream = "ended" THEN "ended" ELSE "aborted"]

CaptureIdle ==
    /\ cpIn = [body |-> <<>>, fate |-> "end", tracing |-> FALSE]
    /\ cpEmitted = 0
    /\ cpStream = "open"
    /\ cpCap = NewCapture
    /\ cpTimer = FALSE
    /\ cpPc = "idle"
    /\ cpRequestBody = None
    /\ cpUpstream = [chunks |-> <<>>, state |-> "none"]

\* handleRequest has called captureRequestBody for a POST whose body is to be
\* captured and whose route is enabled: listeners and timer are set.
CaptureInit ==
    /\ cpIn \in CaptureInputs
    /\ cpEmitted = 0
    /\ cpStream = "open"
    /\ cpCap = NewCapture
    /\ cpTimer = FALSE
    /\ cpPc = "capturing"
    /\ cpRequestBody = None
    /\ cpUpstream = [chunks |-> <<>>, state |-> "none"]

\* handleRequest after `await BodyCapture.captureRequestBody(req)`, run when an
\* event has left the capture as cap and req as stream: once the promise is
\* settled requestBody is its value, or the placeholder when it rejected, and
\* handleRequest goes on to proxy.web, at once or, with tracing, after the log
\* calls it awaits.
CaptureContinue(cap, stream, upstream) ==
    /\ cpCap' = cap
    /\ cpStream' = stream
    /\ IF cpPc = "capturing" /\ IsSome(cap.result)
       THEN /\ cpRequestBody' = Some(IF Get(cap.result).kind = "resolve"
                                     THEN Get(cap.result).value
                                     ELSE Body(Txt_CaptureFailed, <<>>))
            /\ IF cpIn.tracing
               THEN cpPc' = "route_wait" /\ cpUpstream' = upstream
               ELSE cpPc' = "piping" /\ cpUpstream' = PipeTo(upstream, stream)
       ELSE /\ cpUpstream' = upstream
            /\ UNCHANGED <<cpPc, cpRequestBody>>

CaptureUnchanged ==
    UNCHANGED <<routeVars, maskVars, traceIdVars, pipeVars, sanVars, streamVars, rotVars,
                relayVars, rewriteVars, logReqVars, fileLogVars>>

\* req emits 'data': the listener of the capture runs, and the pipe of
\* proxy.web, if it is set up, writes the chunk to the request to the target.
CapData ==
    /\ cpPc # "idle" /\ cpStream = "open"
    /\ cpEmitted < Len(cpIn.body)
    /\ cpEmitted' = cpEmitted + 1
    /\ LET chunk == cpIn.body[cpEmitted + 1]
       IN  CaptureContinue(captureOnData(cpCap, chunk), cpStream,
                           IF cpPc = "piping"
                           THEN [cpUpstream EXCEPT !.chunks = Append(@, chunk)]
                           ELSE cpUpstream)
    /\ UNCHANGED <<cpIn, cpTimer>>
    /\ CaptureUnchanged

\* req emits 'end' after its last chunk.
CapEnd ==
    /\ cpPc # "idle" /\ cpStream = "open"
    /\ cpEmitted = Len(cpIn.body) /\ cpIn.fate = "end"
    /\ CaptureContinue(captureOnEnd(cpCap), "ended",
                       IF cpPc = "piping" THEN PipeTo(cpUpstream, "ended") ELSE cpUpstream)
    /\ UNCHANGED <<cpIn, cpEmitted, cpTimer>>
    /\ CaptureUnchanged

\* req emits 'error' after its last chunk (the client went away).
CapError ==
    /\ cpPc # "idle" /\ cpStream = "open"
    /\ cpEmitted = Len(cpIn.body) /\ cpIn.fate = "error"
    /\ CaptureContinue(captureOnError(cpCap), "errored",
                       IF cpPc = "piping" THEN PipeTo(cpUpstream, "errored") ELSE cpUpstream)
    /\ UNCHANGED <<cpIn, cpEmitted, cpTimer>>
    /\ CaptureUnchanged

\* The timer of 100 ms fires.
CapTimer ==
    /\ cpPc # "idle" /\ ~cpTimer
    /\ cpTimer' = TRUE
    /\ CaptureContinue(captureOnTimer(cpCap), cpStream, cpUpstream)
    /\ UNCHANGED <<cpIn, cpEmitted>>
    /\ CaptureUnchanged

\* handleRequest after the log calls it awaits with tracing: proxy.web(req, res).
CapForward ==
    /\ cpPc = "route_wait"
    /\ cpPc' = "piping"
    /\ cpUpstream' = PipeTo(cpUpstream, cpStream)
    /\ UNCHANGED <<cpIn, cpEmitted, cpStream, cpCap, cpTimer, cpRequestBody>>
    /\ CaptureUnchanged

CaptureNext ==
    \/ CapData
    \/ CapEnd
    \/ CapError
    \/ CapTimer
    \/ CapForward


----------------------------------------------------------------------------
(* A request handler that logs while the LogStreamer writes to a log file. *)
(* Every handler awaits a Logger call before it writes its response:       *)
(* handleNotFound, handleDisabled, handleError and the 'error' listener of *)
(* proxyRequest before writeHead, handleRequest (with tracing) before      *)
(* proxyRequest.  Logger.log awaits streamLog, which awaits writeToFile.   *)

\* The outcomes of a request and the status of the response of each.
HandlerKinds == {"notFound", "disabled", "fault", "upstreamError", "relayed"}

StatusOf(kind) ==
    IF kind = "notFound" THEN 404
    ELSE IF kind = "disabled" THEN 503
    ELSE IF kind = "fault" THEN 500
    ELSE IF kind = "upstreamError" THEN 502
    ELSE 200

\* The level of the entry each handler logs before its response.
LevelOf(kind) ==
    IF kind = "notFound" THEN "warn"
    ELSE IF kind \in {"fault", "upstreamError"} THEN "error"
    ELSE "info"

\* What the write to the log file does: it completes, it fails (the promise
\* rejects), or it never completes.
WriteFates == {"done", "fails", "hangs"}

FileLogInputs ==
    [kind : HandlerKinds, fate : WriteFates, tracing : BOOLEAN, subscriber : BOOLEAN,
     level : {"error", "info"}]

FileLogIdle ==
    /\ beIn = [kind |-> "relayed", fate |-> "done", tracing |-> FALSE, subscriber |-> FALSE,
               level |-> "info"]
    /\ bePc = "idle"
    /\ beBuffer = <<>>
    /\ beFile = <<>>
    /\ beReceived = <<>>
    /\ beStatus = None

\* A request of each outcome is about to be handled; the Logger is at the
\* given global level, a subscriber without filter is connected or not.
FileLogInit ==
    /\ beIn \in FileLogInputs
    /\ bePc = "start"
    /\ beBuffer = <<>>
    /\ beFile = <<>>
    /\ beReceived = <<>>
    /\ beStatus = None

FileLogUnchanged ==
    UNCHANGED <<routeVars, maskVars, traceIdVars, pipeVars, sanVars, streamVars, rotVars,
                relayVars, rewriteVars, logReqVars, captureVars>>

\* The entry the handler logs.
HandlerEntry == LogEntry(LevelOf(beIn.kind), <<"1">>, beIn.kind, None)

\* The handler from the await of its Logger call on: the response is written
\* (for a relayed request: proxyRequest runs and the upstream response is
\* relayed).
AfterLog == /\ beStatus' = Some(StatusOf(beIn.kind))
            /\ bePc' = "responded"

\* The handler up to the await in streamLog.  A relayed request without
\* tracing logs nothing before it is proxied, and an entry the Logger rejects
\* makes log() return at once; otherwise the entry is pushed to the LogBuffer
\* and writeToFile is called.
HandlerLogs ==
    /\ bePc = "start"
    /\ IF (beIn.kind = "relayed" /\ ~beIn.tracing)
          \/ ~LevelAllows(beIn.level, LevelOf(beIn.kind))
       THEN /\ AfterLog
            /\ UNCHANGED beBuffer
       ELSE /\ beBuffer' = streamLog(beBuffer, HandlerEntry)
            /\ bePc' = "writing"
            /\ UNCHANGED beStatus
    /\ UNCHANGED <<beIn, beFile, beReceived>>
    /\ FileLogUnchanged

\* streamLog after `await this.writeToFile(entry)`: broadcastToClients, then
\* Logger.log returns and the handler goes on.
AfterWrite ==
    /\ beReceived' = IF beIn.subscriber
                     THEN Append(beReceived, formatLogForClient(HandlerEntry,
                                                StreamOptions(Query(None, None, None, None, None))))
                     ELSE beReceived
    /\ AfterLog

\* fs.appendFile / logRotation.write completes.
WriteDone ==
    /\ bePc = "writing" /\ beIn.fate = "done"
    /\ beFile' = Append(beFile, HandlerEntry)
    /\ AfterWrite
    /\ UNCHANGED <<beIn, beBuffer>>
    /\ FileLogUnchanged

\* The write rejects: writeToFile catches the error and reports it on the
\* console.
WriteFails ==
    /\ bePc = "writing" /\ beIn.fate = "fails"
    /\ AfterWrite
    /\ UNCHANGED <<beIn, beBuffer, beFile>>
    /\ FileLogUnchanged

FileLogNext ==
    \/ HandlerLogs
    \/ WriteDone
    \/ WriteFails

----------------------------------------------------------------------------
(* Specifications                                                          *)

InitRoute == RouteInit /\ MaskIdle /\ TraceIdIdle /\ PipeIdle /\ SanIdle /\ StreamIdle /\ RotIdle /\ RelayIdle /\ RewriteIdle /\ LogReqIdle /\ CaptureIdle /\ FileLogIdle

NextRoute == Resolve

SpecRoute == InitRoute /\ [][NextRoute]_vars

----------------------------------------------------------------------------
(* Specification of the masking alone                                      *)

InitMask == MaskInit /\ RouteIdle /\ TraceIdIdle /\ PipeIdle /\ SanIdle /\ StreamIdle /\ RotIdle /\ RelayIdle /\ RewriteIdle /\ LogReqIdle /\ CaptureIdle /\ FileLogIdle

NextMask == Mask

SpecMask == InitMask /\ [][NextMask]_vars

----------------------------------------------------------------------------
(* Specification of the trace id extraction alone                          *)

InitTraceId == TraceIdInit /\ RouteIdle /\ MaskIdle /\ PipeIdle /\ SanIdle /\ StreamIdle /\ RotIdle /\ RelayIdle /\ RewriteIdle /\ LogReqIdle /\ CaptureIdle /\ FileLogIdle

NextTraceId == Extract

SpecTraceId == InitTraceId /\ [][NextTraceId]_vars

----------------------------------------------------------------------------
(* C5: which header gives the trace id                                     *)

HeaderOrder == << "x-trace-id", "x-request-id", "x-correlation-id", "traceparent",
                  "x-amzn-trace-id" >>

\* The second dash-delimited segment of a value, when it has one.
SecondSegment(value) ==
    LET dashes == {i \in 1..Len(value) : value[i] = "-"}
    IN  IF dashes = {} THEN None
        ELSE LET d1 == CHOOSE i \in dashes : \A j \in dashes : i <= j
                 later == {i \in dashes : i > d1}
                 d2 == IF later = {} THEN Len(value) + 1
                       ELSE CHOOSE i \in later : \A j \in later : i <= j
             IN  Some(SubSeq(value, d1 + 1, d2 - 1))

\* Position in HeaderOrder of the first header for which Has holds, 0 when none.
FirstHeader(Has(_)) ==
    LET is == {i \in 1..Len(HeaderOrder) : Has(HeaderOrder[i])}
    IN  IF is = {} THEN 0 ELSE CHOOSE i \in is : \A j \in is : i <= j

\* C5 as stated: the first of the five headers that is present (sent with a
\* value) gives the id, which for traceparent is its second dash-delimited
\* segment, and an id is generated only when none of the five is present.
C5_FirstPresentHeader ==
    tiOut[1] = "done" =>
        LET Present(n) == IsSome(tiHeaders[n]) /\ Get(tiHeaders[n]) # <<>>
            f == FirstHeader(Present)
        IN  IF f = 0 THEN tiOut[2] = tiFresh
            ELSE LET v == Get(tiHeaders[HeaderOrder[f]])
                 IN  IF HeaderOrder[f] = "traceparent"
                     THEN Some(tiOut[2]) = SecondSegment(v)
                     ELSE tiOut[2] = v

\* C5 (amended): the first of the five headers, in the order x-trace-id,
\* x-request-id, x-correlation-id, traceparent, x-amzn-trace-id, that has a
\* non-empty value gives the id: its value, or for traceparent its second
\* dash-delimited segment when the value contains a dash and the whole value when
\* it contains none; an id is generated exactly when none of the five has a
\* non-empty value.
C5_FirstNonEmptyHeader ==
    tiOut[1] = "done" =>
        LET NonEmpty(n) == IsSome(tiHeaders[n]) /\ Get(tiHeaders[n]) # <<>>
            f == FirstHeader(NonEmpty)
        IN  /\ (f = 0) <=> (tiOut[2] = tiFresh)
            /\ f # 0 =>
                 LET v == Get(tiHeaders[HeaderOrder[f]])
                 IN  IF HeaderOrder[f] = "traceparent" /\ IsSome(SecondSegment(v))
                     THEN Some(tiOut[2]) = SecondSegment(v)
                     ELSE tiOut[2] = v

\* x-trace-id is absent, x-request-id and traceparent both carry a value, and the
\* id is the x-request-id value; and in another request traceparent is the first
\* header with a value and its second segment is the id.
C5_Witness ==
    /\ tiOut[1] = "done"
    /\ tiHeaders["x-trace-id"] = None
    /\ tiHeaders["x-request-id"] = None
    /\ tiHeaders["x-correlation-id"] = Some(<<>>)
    /\ tiHeaders["traceparent"] = Some(<<"0", "0", "-", "p", "-", "0", "1">>)
    /\ IsSome(tiHeaders["x-amzn-trace-id"])
    /\ tiOut[2] = <<"p">>

----------------------------------------------------------------------------
(* C10: the shape of a masked header value                                 *)

AuthSchemes == {authPrefixes[i] : i \in 1..Len(authPrefixes)}

\* Length of the recognized auth-scheme prefix of a value, 0 when it has none.
SchemeLen(value) ==
    LET ls == {l \in 1..Len(value) : ToLowerCase(SubSeq(value, 1, l)) \in AuthSchemes}
    IN  IF ls = {} THEN 0 ELSE CHOOSE l \in ls : TRUE

\* The number a sequence of decimal digits denotes.
RECURSIVE DecValue(_)
DecValue(digits) ==
    IF digits = <<>> THEN 0
    ELSE 10 * DecValue(SubSeq(digits, 1, Len(digits) - 1))
         + (CHOOSE d \in 0..9 : DigitChars[d + 1] = digits[Len(digits)])

IsDecimal(digits) ==
    /\ Len(digits) >= 1
    /\ \A i \in 1..Len(digits) : \E d \in 0..9 : DigitChars[d + 1] = digits[i]
    /\ Len(digits) > 1 => digits[1] # "0"

BearerExample == Pre_Bearer \o SecretOfLen(36)

BearerExampleMasked ==
    Pre_Bearer \o <<"a", "b", "c", "d", "e", "f", "g", "h">>
        \o <<"*", "*", "*", "*", "*", "*", "*", "*", "*", "*",
              "*", "*", "*", "*", "*", "*", "*", "*", "*", "*">>
        \o <<".", ".", ".", "+", "8">>

----------------------------------------------------------------------------
(* Specification of the proxy pipeline: requests and upgrades handled      *)
(* concurrently by the server, configuration events, eviction timers.      *)

Init == PipeInit /\ RouteIdle /\ MaskIdle /\ TraceIdIdle /\ SanIdle /\ StreamIdle /\ RotIdle /\ RelayIdle /\ RewriteIdle /\ LogReqIdle /\ CaptureIdle /\ FileLogIdle

Next == PipeNext

Spec == Init /\ [][Next]_vars

\* The server with one request and configuration reloads.
NextReload == ReloadNext

SpecReload == Init /\ [][NextReload]_vars

----------------------------------------------------------------------------
(* Specification of the life of one request                                *)

NextLifetime == LifetimeNext

SpecLifetime == Init /\ [][NextLifetime]_vars

\* One request under any configuration, the minimal one included.
NextMinimal == MinimalNext

SpecMinimal == Init /\ [][NextMinimal]_vars

----------------------------------------------------------------------------
(* Specification of the header capture alone                               *)

InitSanitize == SanInit /\ RouteIdle /\ MaskIdle /\ TraceIdIdle /\ PipeIdle /\ StreamIdle /\ RotIdle /\ RelayIdle /\ RewriteIdle /\ LogReqIdle /\ CaptureIdle /\ FileLogIdle

NextSanitize == SanNext

SpecSanitize == InitSanitize /\ [][NextSanitize]_vars

----------------------------------------------------------------------------
(* Specification of the Logger and the LogStreamer with subscribers        *)

InitLogger == LoggerInit /\ RouteIdle /\ MaskIdle /\ TraceIdIdle /\ SanIdle /\ RotIdle /\ RelayIdle /\ RewriteIdle /\ LogReqIdle /\ CaptureIdle /\ FileLogIdle

NextLogger == LoggerNext

SpecLogger == InitLogger /\ [][NextLogger]_vars

InitStream == StreamInit /\ RouteIdle /\ MaskIdle /\ TraceIdIdle /\ SanIdle /\ RotIdle /\ RelayIdle /\ RewriteIdle /\ LogReqIdle /\ CaptureIdle /\ FileLogIdle

NextStream == StreamNext

SpecStream == InitStream /\ [][NextStream]_vars

----------------------------------------------------------------------------
(* Specification of the LogBuffer alone                                    *)

InitBuffer == BufferInit /\ RouteIdle /\ MaskIdle /\ TraceIdIdle /\ SanIdle /\ RotIdle /\ RelayIdle /\ RewriteIdle /\ LogReqIdle /\ CaptureIdle /\ FileLogIdle

NextBuffer == BufferNext

SpecBuffer == InitBuffer /\ [][NextBuffer]_vars

----------------------------------------------------------------------------
(* Specification of the log rotation alone                                 *)

InitRotation == RotInit /\ RouteIdle /\ MaskIdle /\ TraceIdIdle /\ PipeIdle /\ SanIdle /\ StreamIdle /\ RelayIdle /\ RewriteIdle /\ LogReqIdle /\ CaptureIdle /\ FileLogIdle

NextRotation == RotNext

SpecRotation == InitRotation /\ [][NextRotation]_vars

----------------------------------------------------------------------------
(* Specification of the response relay alone                               *)

InitRelay == RelayInit /\ RouteIdle /\ MaskIdle /\ TraceIdIdle /\ PipeIdle /\ SanIdle /\ StreamIdle /\ RotIdle /\ RewriteIdle /\ LogReqIdle /\ CaptureIdle /\ FileLogIdle

NextRelay == RelayNext

SpecRelay == InitRelay /\ [][NextRelay]_vars

----------------------------------------------------------------------------
(* Specification of the path rewriting alone                               *)

InitRewrite == RewriteInit /\ RouteIdle /\ MaskIdle /\ TraceIdIdle /\ PipeIdle /\ SanIdle /\ StreamIdle /\ RotIdle /\ RelayIdle /\ LogReqIdle /\ CaptureIdle /\ FileLogIdle

NextRewrite == RewriteNext

SpecRewrite == InitRewrite /\ [][NextRewrite]_vars

----------------------------------------------------------------------------
(* Specification of Logger.logRequest alone                                *)

InitLogRequest == LogReqInit /\ RouteIdle /\ MaskIdle /\ TraceIdIdle /\ PipeIdle /\ SanIdle /\ StreamIdle /\ RotIdle /\ RelayIdle /\ RewriteIdle /\ CaptureIdle /\ FileLogIdle

NextLogRequest == LogReqNext

SpecLogRequest == InitLogRequest /\ [][NextLogRequest]_vars

----------------------------------------------------------------------------
(* Specification of the request body capture alone; in the second one the  *)
(* timer fires, req emits what the client sends, and handleRequest runs.   *)

InitCapture == CaptureInit /\ RouteIdle /\ MaskIdle /\ TraceIdIdle /\ PipeIdle /\ SanIdle /\ StreamIdle /\ RotIdle /\ RelayIdle /\ RewriteIdle /\ LogReqIdle /\ FileLogIdle

NextCapture == CaptureNext

SpecCapture == InitCapture /\ [][NextCapture]_vars

SpecCaptureLive ==
    /\ SpecCapture
    /\ WF_vars(CapData) /\ WF_vars(CapEnd) /\ WF_vars(CapError)
    /\ WF_vars(CapTimer) /\ WF_vars(CapForward)

----------------------------------------------------------------------------
(* Specification of a handler that logs to a file; every step that can be  *)
(* taken is taken.                                                         *)

InitFileLog == FileLogInit /\ RouteIdle /\ MaskIdle /\ TraceIdIdle /\ PipeIdle /\ SanIdle /\ StreamIdle /\ RotIdle /\ RelayIdle /\ RewriteIdle /\ LogReqIdle /\ CaptureIdle

NextFileLog == FileLogNext

SpecFileLog ==
    /\ InitFileLog /\ [][NextFileLog]_vars
    /\ WF_vars(HandlerLogs) /\ WF_vars(WriteDone) /\ WF_vars(WriteFails)

----------------------------------------------------------------------------
(* C1: the route resolver returns a matching route of maximal score        *)

\* The path prefix of a route: the key suffix, else the route's path field.
EffectivePath(entry) ==
    LET parts == Split(entry.key, ":")
    IN  IF Len(parts) >= 2 /\ parts[2] # <<>> THEN Some(parts[2]) ELSE entry.route.path

EntryDomain(entry) == Split(entry.key, ":")[1]

IsExact(entry, domain) == EntryDomain(entry) = domain

IsWildcard(entry, domain) ==
    LET d == EntryDomain(entry)
    IN  /\ d # domain
        /\ Len(d) >= 2 /\ d[1] = "*" /\ d[2] = "."
        /\ \E k \in 0..Len(domain) : SubSeq(domain, k + 1, Len(domain)) = SubSeq(d, 3, Len(d))

HasPrefix(entry) == IsSome(EffectivePath(entry)) /\ Get(EffectivePath(entry)) # <<>>

PrefixOk(entry, url) ==
    HasPrefix(entry) =>
        LET p == Get(EffectivePath(entry))
        IN  Len(p) <= Len(url) /\ \A k \in 1..Len(p) : url[k] = p[k]

RouteMatches(entry, domain, url) ==
    (IsExact(entry, domain) \/ IsWildcard(entry, domain)) /\ PrefixOk(entry, url)

RouteScore(entry, domain) ==
    (IF IsExact(entry, domain) THEN 1000 ELSE 500)
        + (IF HasPrefix(entry) THEN Len(Get(EffectivePath(entry))) ELSE 0)

----------------------------------------------------------------------------
(* C2: path replacement for a route whose prefix is in its key             *)

P_users == <<"/", "u", "s", "e", "r", "s">>

\* The route's path prefix is given only by the key suffix, and it defines pathReplace.
KeyPrefixOnly(entry) ==
    /\ Truthy(KeyPath(entry.key))
    /\ ~IsSome(entry.route.path)
    /\ IsSome(entry.route.pathReplace)

\* C2: for a route whose path prefix is given only by the route-key suffix and which
\* defines pathReplace, the forwarded path is pathReplace followed by the request
\* path with the matched prefix removed; under the README table, GET /api/users on
\* x.dev.local is forwarded to T1 at /users.
C2_KeyPrefixReplaced ==
    \A r \in RequestIds :
        LET rq == reqs[r]
        IN  (rq.kind = "http" /\ IsSome(rq.fwd) /\ KeyPrefixOnly(Get(rq.route))) =>
              LET entry == Get(rq.route)
                  prefix == Get(KeyPath(entry.key))
              IN  /\ Get(rq.fwd).path =
                        Get(entry.route.pathReplace) \o Substring(rq.originalUrl, Len(prefix))
                  /\ (/\ rq.cfgId = ConfigReadme.id
                      /\ extractDomain(rq.host) = Str_x_dev_local
                      /\ rq.originalUrl = P_api_users)
                       => (Get(rq.fwd).target = T1 /\ Get(rq.fwd).path = P_users)

----------------------------------------------------------------------------
(* C3: disabled and missing routes                                         *)

\* The entries of the table the request was resolved against that match it.
MatchingEntries(rq) ==
    LET table == ConfigById(rq.cfgId).routes
    IN  {i \in 1..Len(table) :
            RouteMatches(table[i], extractDomain(rq.host), rq.originalUrl)}

\* Those of maximal score.
TopEntries(rq) ==
    LET table == ConfigById(rq.cfgId).routes
        domain == extractDomain(rq.host)
    IN  {i \in MatchingEntries(rq) :
            \A j \in MatchingEntries(rq) :
                RouteScore(table[j], domain) <= RouteScore(table[i], domain)}

TopDisabled(rq) ==
    /\ MatchingEntries(rq) # {}
    /\ \A i \in TopEntries(rq) : ConfigById(rq.cfgId).routes[i].route.enabled = Some(FALSE)

\* A lower-scoring enabled route also matches.
EnabledBelow(rq) ==
    \E i \in MatchingEntries(rq) \ TopEntries(rq) :
        ConfigById(rq.cfgId).routes[i].route.enabled = Some(TRUE)

\* C3: an HTTP request whose highest-scoring matching route is disabled is answered
\* 503 with a JSON body carrying error and traceId and is never forwarded, even when
\* a lower-scoring enabled route matches; a request no route matches is answered 404
\* and is never forwarded.
C3_DisabledOrMissing ==
    \A r \in RequestIds :
        LET rq == reqs[r]
        IN  rq.kind = "http" =>
              /\ TopDisabled(rq) =>
                   /\ rq.fwd = None
                   /\ rq.pc \in {"capturing", "dis_wait", "done"}
                   /\ rq.pc = "done" =>
                        /\ rq.status = Some(503)
                        /\ Get(rq.body).error = "Route disabled"
                        /\ Get(rq.body).traceId = extractTraceId(rq.headers, Uuid(r))
                   /\ rq.pc # "done" => rq.status = None
              /\ MatchingEntries(rq) = {} =>
                   /\ rq.fwd = None
                   /\ rq.pc \in {"capturing", "nf_wait", "done"}
                   /\ rq.pc = "done" => rq.status = Some(404)
                   /\ rq.pc # "done" => rq.status = None

\* A 503 for a disabled exact route above an enabled wildcard route, and a 404.
C3_Witness ==
    \E r \in RequestIds :
        /\ reqs[r].kind = "http" /\ reqs[r].pc = "done"
        /\ reqs[r].status = Some(503)
        /\ TopDisabled(reqs[r]) /\ EnabledBelow(reqs[r])

----------------------------------------------------------------------------
(* C4: the 404 response                                                    *)

\* The step in which request r arrives (or its body capture settles) and is found
\* to have no route.
MissStep(r) ==
    /\ reqs[r].pc \in {"idle", "capturing"}
    /\ reqs'[r].pc = "nf_wait"

\* The step in which the 404 response of request r is written.
MissAnswered(r) ==
    /\ reqs[r].pc = "nf_wait"
    /\ reqs'[r].pc = "done"

\* C4: when no route matches, the 404 JSON response carries error, traceId and
\* availableRoutes equal to the keys of the current route table; the trace is
\* finalized with status 404 and the miss is logged at warn level.
C4_NotFound ==
    [][\A r \in RequestIds :
          /\ (reqs'[r].kind = "http" /\ reqs[r].pc \in {"idle", "capturing"}
              /\ reqs'[r].pc \notin {"idle", "capturing"}
              /\ MatchingEntries(reqs'[r]) = {}) => MissStep(r)
          /\ MissStep(r) =>
               /\ Get(traceObj'[r]).statusCode = Some(404)
               /\ IsSome(Get(traceObj'[r]).duration)
               /\ Get(traceObj'[r]).id = reqs'[r].traceId
               /\ logBuffer' = Append(logBuffer,
                                      [level |-> "warn", traceId |-> reqs'[r].traceId,
                                       message |-> "No route found",
                                       domain |-> Some(extractDomain(reqs'[r].host))])
          /\ MissAnswered(r) =>
               /\ reqs'[r].status = Some(404)
               /\ Get(reqs'[r].body).error = "No route configured"
               /\ Get(reqs'[r].body).traceId = reqs[r].traceId
               /\ Get(reqs'[r].body).availableRoutes =
                     Some([i \in 1..Len(config.routes) |-> config.routes[i].key])
      ]_vars

\* The spec's example (table {"api.local": ...}, domain other.local), and a 404
\* written after the table was replaced.
C4_Witness ==
    \E r \in RequestIds :
        /\ reqs[r].kind = "http" /\ reqs[r].pc = "done" /\ reqs[r].status = Some(404)
        /\ extractDomain(reqs[r].host) = Str_other_local
        /\ config = ConfigSingle
        /\ reqs[r].cfgId # config.id
        /\ Get(reqs[r].body).availableRoutes = Some(<<Str_api_local>>)

----------------------------------------------------------------------------
(* C6: trace ids of overlapping requests                                   *)

\* Request r has started a trace and its handler has not finished.
InFlight(r) == IsSome(traceObj[r]) /\ reqs[r].pc \notin {"idle", "done"}

\* C6: no two traces whose lifetimes overlap share an id, also when the requests
\* carry the same inbound x-trace-id: startTrace never replaces the stored record of
\* another in-flight request, and finishTrace called by one request never returns
\* (and so never mutates) the record of another.
C6_TraceIdsUnique ==
    /\ \A r, q \in RequestIds :
         (r # q /\ InFlight(r) /\ InFlight(q)) =>
            Get(traceObj[r]).id # Get(traceObj[q]).id
    /\ \A r \in RequestIds :
         InFlight(r) => (reqs[r].traceId \in DOMAIN traces => traces[reqs[r].traceId] = r)
    /\ \A r \in RequestIds :
         \A i \in 1..Len(reqs[r].fin) : reqs[r].fin[i].rec \in {None, Some(r)}

----------------------------------------------------------------------------
(* C7: one finalization per trace                                          *)

\* The finishTrace calls of request r that took effect on its own record.
OwnFinalizations(r) ==
    {i \in 1..Len(reqs[r].fin) : reqs[r].fin[i].rec = Some(r)}

\* C7: over every sequence of handler events of one request or upgrade, finishTrace
\* takes effect at most once for its trace, so the recorded status and duration are
\* never overwritten.
C7_FinalizedOnce ==
    \A r \in RequestIds : Cardinality(OwnFinalizations(r)) <= 1

----------------------------------------------------------------------------
(* C8: the grace period                                                    *)

\* The step is the firing of the oldest eviction timer, and it removes a record.
Evicts ==
    /\ timers # <<>>
    /\ timers' = Tail(timers)
    /\ Head(timers).id \in DOMAIN traces

\* C8: an eviction timer removes only a trace that has been finalized, and no
\* earlier than 60 seconds after that trace's own finalization, also when an
\* earlier trace used the same id.
C8_EvictAfterGrace ==
    [][Evicts =>
          LET trace == Get(traceObj[traces[Head(timers).id]])
          IN  /\ IsSome(trace.duration)
              /\ now >= trace.timestamp + Get(trace.duration) + GracePeriod
      ]_vars

----------------------------------------------------------------------------
(* C9: finishTrace on an unknown id                                        *)

\* Request r calls finishTrace in this step and gets nothing back.
FinishMisses(r) ==
    /\ Len(reqs'[r].fin) = Len(reqs[r].fin) + 1
    /\ reqs'[r].fin[Len(reqs'[r].fin)].rec = None

\* The step only appends to the log, and one of the entries it appends is about
\* request r.
LogsAbout(r, levelSet) ==
    /\ Len(logBuffer') > Len(logBuffer)
    /\ SubSeq(logBuffer', 1, Len(logBuffer)) = logBuffer
    /\ \E i \in (Len(logBuffer) + 1)..Len(logBuffer') :
          /\ logBuffer'[i].traceId = reqs[r].traceId
          /\ logBuffer'[i].level \in levelSet

\* The handler step of request r reports a completion (response end, WebSocket
\* close), which is logged at info; the other finalizing steps report an error.
InfoStep(r) ==
    /\ reqs'[r].pc \in {"end_wait", "done"}
    /\ reqs'[r].wsError = reqs[r].wsError

\* C9: finishTrace on an id that is not in the trace table returns none and changes
\* nothing, and the pipeline goes on: the handler still writes its log entry and
\* the request still completes with its response.
C9_UnknownIdTolerated ==
    [][\A r \in RequestIds :
          /\ FinishMisses(r) =>
               /\ reqs[r].traceId \notin DOMAIN traces
               /\ UNCHANGED <<traces, traceObj, timers>>
               /\ reqs'[r].pc # reqs[r].pc \/ reqs[r].pc = "ws_proxying"
               /\ IF reqs[r].pc = "streaming" /\ reqs'[r].pc = "done"
                  THEN ~config.global.tracing /\ UNCHANGED logBuffer
                  ELSE IF InfoStep(r) /\ ~shouldLog("info", Some(extractDomain(reqs[r].host)))
                       THEN UNCHANGED logBuffer
                       ELSE LogsAbout(r, IF InfoStep(r) THEN {"info"} ELSE {"warn", "error"})
          /\ (reqs'[r].pc = "done" /\ reqs'[r].kind = "http") =>
               /\ IsSome(reqs'[r].status)
               /\ reqs'[r].headersSent
      ]_vars

\* A request answered although its trace was gone when its handler finalized it.
C9_Witness ==
    \E r \in RequestIds :
        /\ reqs[r].kind = "http" /\ reqs[r].pc = "done"
        /\ \E i \in 1..Len(reqs[r].fin) : reqs[r].fin[i].rec = None
        /\ reqs[r].status = Some(502)
        /\ \E i \in 1..Len(logBuffer) :
              /\ logBuffer[i].traceId = reqs[r].traceId
              /\ logBuffer[i].message \in {"Target server connection lost", "Proxy error"}

----------------------------------------------------------------------------
(* C11: what a sensitive header reveals                                    *)

\* The name contains one of the six listed names, in any spelling.
C11_SensitiveName(key) ==
    \E i \in 1..Len(sensitiveHeaders) :
        \E j \in 0..(Len(key) - Len(sensitiveHeaders[i])) :
            ToLowerCase(SubSeq(key, j + 1, j + Len(sensitiveHeaders[i]))) = sensitiveHeaders[i]

\* The length of the scheme prefix of a value, 0 when it has none.
C11_PrefixLen(v) ==
    IF \E i \in 1..Len(authPrefixes) : StartsWith(ToLowerCase(v), authPrefixes[i])
    THEN Len(authPrefixes[CHOOSE i \in 1..Len(authPrefixes) :
                              StartsWith(ToLowerCase(v), authPrefixes[i])])
    ELSE 0

\* The number of characters of the secret portion that may be revealed.
C11_Shown(v) == Min((Len(v) - C11_PrefixLen(v)) \div 4, 8)

\* The value with every character of the secret portion after the first
\* C11_Shown(v) replaced by "#".
C11_Scrub(v) ==
    SubSeq(v, 1, C11_PrefixLen(v) + C11_Shown(v))
    \o Repeat("#", Len(v) - C11_PrefixLen(v) - C11_Shown(v))

\* The header object with the value of every sensitive header scrubbed.
C11_ScrubHeaders(headers) ==
    [i \in 1..Len(headers) |->
        IF C11_SensitiveName(headers[i].key) /\ IsSome(headers[i].value)
        THEN HeaderEntry(headers[i].key, Some(C11_Scrub(Get(headers[i].value))))
        ELSE headers[i]]

\* The raw sensitive headers of the request and of the response.
C11_RawSensitive ==
    {h \in {sanHeaders[i] : i \in 1..Len(sanHeaders)}
           \cup {sanResHeaders[i] : i \in 1..Len(sanResHeaders)} :
        C11_SensitiveName(h.key) /\ Truthy(h.value)}

\* The header entries stored in the trace record.
C11_Stored ==
    {sanTrace.headers[i] : i \in 1..Len(sanTrace.headers)}
    \cup (IF IsSome(sanTrace.responseHeaders)
          THEN {Get(sanTrace.responseHeaders)[i] : i \in 1..Len(Get(sanTrace.responseHeaders))}
          ELSE {})

\* The secret portion of v after its revealed characters starts with the mask
\* itself: up to 20 asterisks.
C11_HiddenIsMask(v) ==
    \A i \in 1..Min(Len(v) - C11_PrefixLen(v) - C11_Shown(v), 20) :
        v[C11_PrefixLen(v) + C11_Shown(v) + i] = "*"

\* C11 as stated: the raw value of a sensitive header never appears in the
\* trace record nor as the value of a header line of a log message.
C11_RawNeverAppears ==
    \A h \in C11_RawSensitive :
        /\ h \notin C11_Stored
        /\ \A i \in 1..Len(sanLog) : ~IncludesText(sanLog[i], <<"\n">> \o HeaderLine(h))

\* C11, amended: the trace record and the log messages are what they would be
\* if every character of the secret portion after the first
\* min(floor(len/4), 8) were another one, so they reveal at most that many raw
\* characters; and the raw value of a sensitive header is stored or logged
\* only when what it hides is the mask itself.
C11_RevealsAtMostQuarter ==
    /\ sanPc \in {"traced", "finished", "logged"} =>
          sanTrace.headers = TraceManager_sanitizeHeaders(C11_ScrubHeaders(sanHeaders))
    /\ sanPc \in {"finished", "logged"} /\ sanLogHeaders =>
          sanTrace.responseHeaders
              = Some(BodyCapture_sanitizeHeaders(C11_ScrubHeaders(sanResHeaders)))
    /\ sanPc = "logged" =>
          sanLog = HeaderMessages(
                       [headers |-> TraceManager_sanitizeHeaders(C11_ScrubHeaders(sanHeaders)),
                        responseHeaders |->
                            IF sanLogHeaders
                            THEN Some(BodyCapture_sanitizeHeaders(C11_ScrubHeaders(sanResHeaders)))
                            ELSE None],
                       sanLogHeaders)
    /\ \A h \in C11_RawSensitive :
          (h \in C11_Stored
           \/ \E i \in 1..Len(sanLog) : IncludesText(sanLog[i], <<"\n">> \o HeaderLine(h)))
          => C11_HiddenIsMask(Get(h.value))

\* A Set-Cookie header of a response whose 37-character value has been masked
\* in the trace record and in the logged header lines.
C11_Witness ==
    /\ sanPc = "logged"
    /\ sanLogHeaders
    /\ Len(sanResHeaders) = 2
    /\ sanResHeaders[2].key = <<"s", "e", "t", "-", "c", "o", "o", "k", "i", "e">>
    /\ sanResHeaders[2].value = Some(SecretOfLen(37))
    /\ Get(sanTrace.responseHeaders)[2].value
           = Some(SubSeq(SecretOfLen(37), 1, 8) \o Repeat("*", 20) \o <<".", ".", ".", "+", "9">>)
    /\ Len(sanLog) = 2

----------------------------------------------------------------------------
(* C12: which entries Logger.log admits                                    *)

\* The ranking error < warn < info < debug.
C12_Rank(level) ==
    CASE level = "error" -> 1
      [] level = "warn" -> 2
      [] level = "info" -> 3
      [] level = "debug" -> 4

\* The per-domain override when the domain has one, otherwise the global level.
C12_Resolved(domain) ==
    IF IsSome(domain) /\ Get(domain) \in DOMAIN domainLevels
    THEN domainLevels[Get(domain)]
    ELSE globalLevel

C12_Admits(level, domain) ==
    /\ C12_Resolved(domain) # "none"
    /\ C12_Rank(level) <= C12_Rank(C12_Resolved(domain))

\* C12: a call of log(level, ...) puts its entry in the LogBuffer and starts
\* its write to the log file iff the resolved level is not 'none' and the
\* entry's level is at or below it; a rejected call changes neither the
\* LogBuffer nor the log file nor any subscriber's stream, and only admitted
\* entries ever reach the file and the subscribers.
C12_LogAdmission ==
    /\ [][logCall'.n = logCall.n + 1 =>
            LET entry == LogEntry(logCall'.level, NumberToString(logCall'.n), "m",
                                  logCall'.domain)
            IN  IF C12_Admits(logCall'.level, logCall'.domain)
                THEN /\ logBuffer' = Append(logBuffer, entry)
                     /\ pending' = pending \cup {entry}
                     /\ entry \notin pending
                ELSE UNCHANGED <<logBuffer, logFile, pending, sockets, clients>>]_vars
    /\ [](\A i \in 1..Len(logFile) : C12_Admits(logFile[i].level, logFile[i].domain))
    /\ [](\A c \in ClientIds : \A i \in 1..Len(sockets[c].received) :
             C12_Admits(sockets[c].received[i].entry.level,
                        sockets[c].received[i].entry.domain))

\* An error entry of x.dev.local was rejected because the override of that
\* domain is 'none' although the global level is 'debug', after an entry
\* without a domain had been admitted, written and sent to the subscriber.
C12_Witness ==
    /\ globalLevel = "debug"
    /\ Str_x_dev_local \in DOMAIN domainLevels
    /\ domainLevels[Str_x_dev_local] = "none"
    /\ logCall = [n |-> 2, level |-> "error", domain |-> Some(Str_x_dev_local)]
    /\ Len(logBuffer) = 1
    /\ logBuffer[1].traceId = <<"1">>
    /\ logFile = logBuffer
    /\ Len(sockets[NumClients].received) = 1

----------------------------------------------------------------------------
(* C13: the LogBuffer keeps the most recent 1000 entries                   *)

\* C13: after n calls of streamLog the LogBuffer holds the last min(n, 1000)
\* entries in arrival order, so never more than 1000; from the 1001st push on
\* the earliest entry is absent and the latest is present.
C13_MostRecentKept ==
    /\ Len(logBuffer) <= 1000
    /\ Len(logBuffer) = Min(logCall.n, 1000)
    /\ \A i \in 1..Len(logBuffer) :
          logBuffer[i].traceId = NumberToString(logCall.n - Len(logBuffer) + i)
    /\ logCall.n > 1000 =>
          /\ \A i \in 1..Len(logBuffer) : logBuffer[i].traceId # <<"1">>
          /\ logBuffer[Len(logBuffer)].traceId = NumberToString(logCall.n)

\* After 1001 pushes the buffer holds the entries 2 to 1001.
C13_Witness ==
    /\ logCall.n = 1001
    /\ Len(logBuffer) = 1000
    /\ logBuffer[1].traceId = <<"2">>
    /\ logBuffer[1000].traceId = <<"1", "0", "0", "1">>

----------------------------------------------------------------------------
(* C14: when a write rotates                                               *)

\* Writer w ends its rotation in this step.
RotationEnds(w) == writers[w].pc # "idle" /\ writers'[w].pc = "idle"

\* C14: a call of write() rotates iff currentSize plus the byte length of its
\* data exceeds maxFileSize, so a write of maxFileSize + 1 bytes always does;
\* a call rotates once, and when its rotation ends the file at the log path
\* holds its data and nothing else, the stream is open on that file and
\* currentSize is the byte length of the data.
C14_RotateBeforeWrite ==
    [][/\ writeCount' = writeCount + 1 =>
             \E w \in WriterIds :
                 /\ writers'[w].data.id = writeCount'
                 /\ writers'[w].rotated <=>
                        (currentSize + writers'[w].data.size > MaxFileSize)
                 /\ writers'[w].rotated <=> (writers'[w].pc # "idle")
                 /\ rotations' = rotations
       /\ rotations' # rotations => \E w \in WriterIds : RotationEnds(w)
       /\ \A w \in WriterIds :
             RotationEnds(w) =>
                 /\ writers[w].rotated
                 /\ rotations' = rotations + 1
                 /\ names'[0] # 0
                 /\ inodes'[names'[0]] = <<writers[w].data>>
                 /\ writeStream' = [ino |-> names'[0], ended |-> FALSE]
                 /\ currentSize' = writers[w].data.size]_vars

\* The first write, of maxFileSize + 1 bytes, has rotated once and is alone in
\* the log file, whose former content is in a backup.
C14_Witness ==
    /\ writeCount = 1
    /\ rotations = 1
    /\ \A w \in WriterIds : writers[w].pc = "idle"
    /\ currentSize = MaxFileSize + 1
    /\ inodes[names[0]] = <<Data(1, MaxFileSize + 1)>>
    /\ \E k \in 1..MaxKeep : names[k] # 0 /\ inodes[names[k]] = <<Data(0, MaxFileSize)>>

----------------------------------------------------------------------------
(* C15: where a rotation moves the files                                   *)

\* C15 as stated: when a rotation ends, path.1 holds what the log file held
\* when the rotation started, every backup path.K that existed is at
\* path.K+1, and the log file is a fresh file that holds only the data
\* written after the size counter was reset.
C15_RotationShiftsByOne ==
    [][\A w \in WriterIds :
          RotationEnds(w) =>
              /\ Contents(names', inodes')[1] = writers[w].before[0]
              /\ \A k \in 1..(maxFiles - 1) :
                    IsSome(writers[w].before[k]) =>
                        Contents(names', inodes')[k + 1] = writers[w].before[k]
              /\ Contents(names', inodes')[0] = Some(<<writers[w].data>>)
              /\ currentSize' = writers[w].data.size]_vars

----------------------------------------------------------------------------
(* C16: how many rotated files are kept                                    *)

\* C16 as stated: no backup beyond path.maxFiles exists; while no more than
\* maxFiles rotations have happened nothing that was written is discarded; and
\* once maxFiles rotations have happened the backups path.1 .. path.maxFiles
\* all exist.
C16_KeepsMaxFilesBackups ==
    /\ \A k \in Names : k > maxFiles => names[k] = 0
    /\ (\A w \in WriterIds : writers[w].pc = "idle") =>
          /\ rotations <= maxFiles /\ ~writeAfterEnd =>
                \A id \in 1..writeCount :
                    \E k \in Names : names[k] # 0 /\
                        \E j \in 1..Len(inodes[names[k]]) : inodes[names[k]][j].id = id
          /\ rotations >= maxFiles => \A k \in 1..maxFiles : names[k] # 0

----------------------------------------------------------------------------
(* C17: the history a subscriber is sent when it connects                  *)

\* The filters of a query accept the entry.
C17_Accepts(entry, q) ==
    /\ IsSome(q.level) => C12_Rank(entry.level) <= C12_Rank(Get(q.level))
    /\ IsSome(q.domain) => entry.domain = q.domain

\* Subscriber c connects in this step.
Connects(c) == sockets[c].readyState = "NONE" /\ sockets'[c].readyState = "OPEN"

\* C17: a subscriber that connects with history=true is sent, in the step in
\* which it connects, the entries of the LogBuffer that its filters accept,
\* oldest first and all of them unless a send fails, and no other entry; a
\* subscriber that connects without history=true is sent nothing then.
C17_HistoryOnConnect ==
    [][\A c \in ClientIds :
          Connects(c) =>
              LET q == Get(sockets'[c].query)
                  accepted == SelectSeq(logBuffer, LAMBDA e : C17_Accepts(e, q))
                  received == sockets'[c].received
              IN  IF q.history = Some("true")
                  THEN /\ Len(received) <= Len(accepted)
                       /\ \A i \in 1..Len(received) : received[i].entry = accepted[i]
                       /\ Len(received) < Len(accepted) => sockets'[c].sendFailed
                  ELSE received = <<>>]_vars

\* A subscriber that asked for the history at level warn connected when the
\* buffer held an info entry and then an error entry, and was sent the error
\* entry only.
C17_Witness ==
    /\ sockets[1].readyState = "OPEN"
    /\ sockets[1].query = Some(Query(Some("warn"), None, None, Some("true"), Some("true")))
    /\ sockets[1].connectedAt = 2
    /\ ~sockets[1].sendFailed
    /\ Len(logBuffer) = 2
    /\ logBuffer[1].level = "info"
    /\ logBuffer[2].level = "error"
    /\ Len(sockets[1].received) = 1
    /\ sockets[1].received[1].entry = logBuffer[2]

----------------------------------------------------------------------------
(* C18: what a subscriber with follow=false is sent                        *)

\* The trace ids of the entries logged after subscriber c connected.
LoggedAfter(c) == {NumberToString(n) : n \in (sockets[c].connectedAt + 1)..MaxLogs}

\* C18 as stated: a subscriber that connected with follow=false has received
\* no entry produced after its connection.
C18_NoFollowNothingNew ==
    \A c \in ClientIds :
        (IsSome(sockets[c].query) /\ Get(sockets[c].query).follow = Some("false")) =>
            \A i \in 1..Len(sockets[c].received) :
                sockets[c].received[i].entry.traceId \notin LoggedAfter(c)

----------------------------------------------------------------------------
(* C19: a subscriber whose send failed                                     *)

\* C19 as stated: a subscriber for which a send has failed, during the replay
\* of the history or during a broadcast, is no longer in the broadcast set.
C19_FailedSendRemoves ==
    \A c \in ClientIds : sockets[c].sendFailed => c \notin clients


----------------------------------------------------------------------------
(* C20: an upstream error on a proxied request                             *)

\* The proxy reports an upstream error to the handler of request r.
C20_ErrorStep(r) ==
    /\ reqs[r].pc \in {"proxying", "streaming"}
    /\ reqs'[r].errorCode # reqs[r].errorCode

C20_Code(r) == Get(reqs'[r].errorCode)

\* warn for a refused or reset connection, error for anything else.
C20_Level(code) ==
    IF code \in {"ECONNREFUSED", "ECONNRESET"} THEN "warn" ELSE "error"

\* The log entries the step adds.
C20_Logged ==
    SubSeq(logBuffer', Len(logBuffer) + 1, Len(logBuffer'))

\* The step finalizes the record the trace table holds under the id, with
\* status 500 and the error message.
C20_Finalizes(r, traceId) ==
    LET rec == traceObj'[traces[traceId]]
        call == reqs'[r].fin[Len(reqs'[r].fin)]
    IN  /\ IsSome(rec)
        /\ Get(rec).statusCode = Some(500)
        /\ Get(rec).error = Some(Msg(C20_Code(r)))
        /\ call.status = 500
        /\ call.rec = Some(traces[traceId])

\* The step answers request r with the 502 JSON body.
C20_BadGateway(r) ==
    /\ reqs'[r].status = Some(502)
    /\ reqs'[r].headersSent
    /\ Get(reqs'[r].body).error = "Bad Gateway"
    /\ Get(reqs'[r].body).traceId = reqs[r].traceId

----------------------------------------------------------------------------
(* C21: the body relayed to the client while it is captured                *)

\* The numbers of the chunks written to the client response, in write order.
C21_Written == [i \in 1..Len(rlRes) |-> rlRes[i].id]

\* C21: with response-body capture set up, the client response is written the
\* upstream body unmodified: every chunk once and in order (what was written so
\* far is the chunks 1, 2, ... emitted so far), and when the relay is over it
\* is the whole body.
C21_ClientGetsBodyUnmodified ==
    IsSome(rlCapture) =>
        /\ C21_Written = [i \in 1..Len(rlRes) |-> i]
        /\ Len(rlRes) <= rlSent
        /\ (rlPc = "ended" /\ rlQueue = <<>>) => Len(rlRes) = Len(rlIn.body)


----------------------------------------------------------------------------
(* C22: a configuration error event                                        *)

\* The step logs the entry of the 'config-error' listener.
C22_ErrorEvent ==
    /\ Len(logBuffer') = Len(logBuffer) + 1
    /\ logBuffer'[Len(logBuffer')].message = "Configuration error"

\* C22: on a configuration error event the server keeps its previous state:
\* the route table, the global level and the per-domain levels are those in
\* force before the failed reload; the error is logged at error level.
C22_ErrorKeepsState ==
    [][C22_ErrorEvent =>
          /\ UNCHANGED <<config, globalLevel, domainLevels>>
          /\ logBuffer' = Append(logBuffer, LogEntry("error", Str_SYSTEM,
                                                     "Configuration error", None))
      ]_vars


----------------------------------------------------------------------------
(* C23: the route priority of the README                                   *)

\* The routes of the table that match the request.
C23_Matching ==
    {i \in 1..Len(rtTable) : RouteMatches(rtTable[i], rtDomain, rtUrl)}

C23_PrefixLen(i) ==
    IF HasPrefix(rtTable[i]) THEN Len(Get(EffectivePath(rtTable[i]))) ELSE 0

\* The route has the longest path prefix among the matching routes.
C23_Longest(i) == \A j \in C23_Matching : C23_PrefixLen(j) <= C23_PrefixLen(i)

\* The place of a matching route in the list of the README.
C23_Priority(i) ==
    IF ~HasPrefix(rtTable[i]) THEN 5
    ELSE IF C23_Longest(i)
         THEN (IF IsExact(rtTable[i], rtDomain) THEN 1 ELSE 2)
         ELSE (IF IsExact(rtTable[i], rtDomain) THEN 3 ELSE 4)

\* C23: among the routes matching a request findRoute returns one whose place
\* in the README priority list (exact domain + longest path, wildcard domain +
\* longest path, exact domain + shorter path, wildcard domain + shorter path,
\* route without path) is the best; so a wildcard route with a matching path
\* prefix is returned rather than an exact route with a shorter prefix or none.
C23_ReadmePriority ==
    (rtResult[1] = "done" /\ C23_Matching # {}) =>
        \E i \in C23_Matching :
            /\ rtResult[2] = Some(rtTable[i])
            /\ \A j \in C23_Matching : C23_Priority(i) <= C23_Priority(j)


----------------------------------------------------------------------------
(* C24: what a wildcard key matches                                        *)

\* The domain is a subdomain of suffix: a non-empty label, a dot, the suffix.
C24_SubdomainOf(domain, suffix) ==
    /\ Len(domain) > Len(suffix) + 1
    /\ SubSeq(domain, Len(domain) - Len(suffix), Len(domain)) = <<".">> \o suffix

\* The key domain is a wildcard *.S.
C24_IsWildcardKey(d) == Len(d) >= 2 /\ d[1] = "*" /\ d[2] = "."

\* C24: a route with the wildcard key *.S is returned only for a request domain
\* that is a subdomain of S, never for S itself nor for a domain that only ends
\* with the characters of S.
C24_WildcardNeedsSubdomain ==
    (rtResult[1] = "done" /\ IsSome(rtResult[2])) =>
        LET d == EntryDomain(Get(rtResult[2]))
        IN  C24_IsWildcardKey(d) => C24_SubdomainOf(rtDomain, SubSeq(d, 3, Len(d)))


----------------------------------------------------------------------------
(* C25: two wildcard routes without path                                   *)

\* A matching wildcard route without a path prefix.
C25_PlainWildcard(i) ==
    /\ RouteMatches(rtTable[i], rtDomain, rtUrl)
    /\ IsWildcard(rtTable[i], rtDomain)
    /\ ~HasPrefix(rtTable[i])

\* C25: when the route returned is a wildcard route without path, no other
\* matching wildcard route without path has a longer suffix, whatever the
\* order of the two in the table.
C25_MoreSpecificWildcard ==
    rtResult[1] = "done" =>
        \A i, j \in 1..Len(rtTable) :
            (/\ rtResult[2] = Some(rtTable[i])
             /\ C25_PlainWildcard(i)
             /\ C25_PlainWildcard(j))
                => Len(EntryDomain(rtTable[j])) <= Len(EntryDomain(rtTable[i]))


----------------------------------------------------------------------------
(* C26: the logging level of the matched route                             *)

\* The level that filters the entries of request r: the one its matched route
\* configures, else the global one.
C26_RouteLevel(r) ==
    LET route == Get(reqs'[r].route).route
    IN  IF IsSome(route.logging) THEN Get(route.logging) ELSE globalLevel

\* C26: every entry logged for a request that matched a route of the
\* configuration in force passes the level configured on that route, whatever
\* the form of the route key, and the global level when the route has none.
C26_RouteLevelFilters ==
    [][\A r \in RequestIds :
          (/\ reqs'[r] # reqs[r]
           /\ IsSome(reqs'[r].route)
           /\ reqs'[r].cfgId = config.id
           /\ UNCHANGED <<config, globalLevel, domainLevels>>)
             => \A i \in (Len(logBuffer) + 1)..Len(logBuffer') :
                   logBuffer'[i].traceId = reqs'[r].traceId
                      => LevelAllows(C26_RouteLevel(r), logBuffer'[i].level)
      ]_vars


----------------------------------------------------------------------------
(* C27: path rewriting with an empty, a given and an absent replacement    *)

\* The path field of the route, when it defines a non-empty one.
C27_HasPath == IsSome(rwEntry.route.path) /\ Get(rwEntry.route.path) # <<>>

\* The request path starts with the route's path P.
C27_StartsWithPath ==
    LET p == Get(rwEntry.route.path)
    IN  Len(p) <= Len(rwUrl) /\ \A k \in 1..Len(p) : rwUrl[k] = p[k]

\* The request path without its first n characters.
C27_Rest(n) == [k \in 1..(Len(rwUrl) - n) |-> rwUrl[k + n]]

----------------------------------------------------------------------------
(* C28: the trace is finalized when the transfer is complete               *)

\* Bytes of the upstream body.
RECURSIVE C28_Size(_)
C28_Size(body) == IF body = <<>> THEN 0 ELSE Head(body).size + C28_Size(Tail(body))

\* What the capture of a completed transfer yields: the whole body, or the
\* marker of a body above the limit, or the marker of an empty one.
C28_WholeBody ==
    IF C28_Size(rlIn.body) > 1024 * 1024
    THEN Body("[Response body too large - truncated]", <<>>)
    ELSE IF rlIn.body = <<>> THEN Body("[Empty response body]", <<>>)
    ELSE Body("text", rlIn.body)

\* The record describes the completed transfer: the upstream status, the time
\* from the start of the request to the end of the body, the whole body.
C28_OfCompletedTransfer(record) ==
    /\ record.statusCode = (IF rlIn.statusCode = 0 THEN 200 ELSE rlIn.statusCode)
    /\ record.duration = rlNow
    /\ record.responseBody = (IF IsSome(rlCapture) THEN Some(C28_WholeBody) ELSE None)

----------------------------------------------------------------------------
(* C29: the entries of logRequest                                          *)

C29_About ==
    <<"summary", "Request Headers:", "Request Body:", "Response Headers:",
      "Response Body:">>

\* The flag of a detail as configured: the route's value when the route defines
\* it, else the global value, else false.
C29_Effective(flag) ==
    IF IsSome(lrRoute) /\ Get(lrRoute)[flag] # None THEN Get(lrRoute)[flag] = Some(TRUE)
    ELSE IF IsSome(lrGlobal) /\ Get(lrGlobal)[flag] # None THEN Get(lrGlobal)[flag] = Some(TRUE)
    ELSE FALSE

\* The data of a detail is on the trace: headers with at least one entry, a
\* body with at least one character.
C29_Present(field) ==
    lrTrace[field] # None /\ Get(lrTrace[field]) # <<>>

\* The details logRequest is to log, by position in C29_About.
C29_Due ==
    {k \in 2..5 :
        CASE k = 2 -> C29_Effective("logRequestHeaders") /\ C29_Present("headers")
          [] k = 3 -> C29_Effective("logRequestBody") /\ C29_Present("requestBody")
          [] k = 4 -> C29_Effective("logResponseHeaders") /\ C29_Present("responseHeaders")
          [] k = 5 -> C29_Effective("logResponseBody") /\ C29_Present("responseBody")}

\* The positions in C29_About of the calls made so far.
C29_Made == [i \in 1..Len(lrOut) |-> CHOOSE k \in 1..5 : C29_About[k] = lrOut[i].about]

\* C29: logRequest logs exactly one summary, first, and then one detail for
\* each of request headers, request body, response headers and response body
\* iff its effective flag is true and its data is on the trace, each decided
\* on its own; the details come in that order, and none is logged twice.
C29_SummaryThenDetails ==
    /\ lrStage >= 1 => (lrOut # <<>> /\ lrOut[1].about = "summary")
    /\ \A i, j \in 1..Len(lrOut) : i < j => C29_Made[i] < C29_Made[j]
    /\ \A i \in 2..Len(lrOut) : C29_Made[i] \in C29_Due
    /\ lrStage = LastStage + 1 =>
          \A k \in C29_Due : \E i \in 1..Len(lrOut) : C29_Made[i] = k

\* A route that turns the request body detail off against a global true, and
\* leaves the other details to the global flags: three details are logged.
C29_Witness ==
    /\ lrStage = LastStage + 1
    /\ IsSome(lrRoute)
    /\ Get(lrRoute).logRequestBody = Some(FALSE)
    /\ Get(lrRoute).logRequestHeaders = None
    /\ Get(lrGlobal).logRequestBody = Some(TRUE)
    /\ lrTrace.requestBody = Some(Txt_body)
    /\ [i \in 1..Len(lrOut) |-> lrOut[i].about]
          = <<"summary", "Request Headers:", "Response Headers:", "Response Body:">>


----------------------------------------------------------------------------
(* C30: rotation while several writes are in progress                      *)

\* Writer w starts a rotation in this step.
C30_RotationStarts(w) == writers[w].pc = "idle" /\ writers'[w].pc # "idle"

\* The call of write() started in this step has written its data and returned.
C30_WritesAtOnce(w) ==
    /\ writeCount' = writeCount + 1
    /\ writers'[w].data.id = writeCount'
    /\ writers'[w].pc = "idle"

\* The places of the directory where the data with this id is found.
C30_Places(id, dir, files) ==
    {p \in Names \X (1..(MaxWrites + 1)) :
        /\ dir[p[1]] # 0
        /\ p[2] <= Len(files[dir[p[1]]])
        /\ files[dir[p[1]]][p[2]].id = id}

\* C30 as stated: while a rotation is in progress no other call of write()
\* starts a rotation, none writes to the stream the rotation has ended, and
\* when a call of write() returns its data is found exactly once in the log
\* file and its backups.
C30_RotationAtomic ==
    [][/\ \A w \in WriterIds :
             C30_RotationStarts(w) =>
                 \A v \in WriterIds \ {w} : writers[v].pc = "idle"
       /\ ~writeAfterEnd'
       /\ \A w \in WriterIds :
             C30_WritesAtOnce(w) \/ RotationEnds(w) =>
                 Cardinality(C30_Places(writers'[w].data.id, names', inodes')) = 1]_vars


----------------------------------------------------------------------------
(* C31: one order of the entries in the buffer, the file and the streams   *)

\* The place of the first occurrence of e in a sequence, 0 when it has none.
C31_Pos(seq, e) ==
    IF \E i \in 1..Len(seq) : seq[i] = e
    THEN CHOOSE i \in 1..Len(seq) : seq[i] = e /\ \A j \in 1..(i - 1) : seq[j] # e
    ELSE 0

\* The entries a subscriber has been sent, in the order of the sends.
C31_Delivered(c) == [i \in 1..Len(sockets[c].received) |-> sockets[c].received[i].entry]

\* a and b are both in the sequence, a first.
C31_Before(seq, a, b) ==
    C31_Pos(seq, a) # 0 /\ C31_Pos(seq, b) # 0 /\ C31_Pos(seq, a) < C31_Pos(seq, b)

\* C31 as stated: two entries of the LogBuffer are in the log file, once both
\* are written, in the order they have in the buffer, and every subscriber
\* that was sent both was sent them in that order.
C31_SameOrderEverywhere ==
    \A i \in 1..Len(logBuffer) : \A j \in (i + 1)..Len(logBuffer) :
        /\ ~C31_Before(logFile, logBuffer[j], logBuffer[i])
        /\ \A c \in ClientIds : ~C31_Before(C31_Delivered(c), logBuffer[j], logBuffer[i])


----------------------------------------------------------------------------
(* C32: the log levels after a reload                                      *)

\* A 'config-changed' event is handled in this step.
C32_Reloaded == started /\ config' # config /\ config' \in Configs

\* The overrides a configuration defines: the level of every route that has one.
C32_Defined(c) ==
    {<<c.routes[i].key, Get(c.routes[i].route.logging)>> :
        i \in {j \in 1..Len(c.routes) : IsSome(c.routes[j].route.logging)}}

\* The overrides in force in the Logger.
C32_InForce(dl) == {<<k, dl[k]>> : k \in DOMAIN dl}

\* C32 as stated: after a 'config-changed' event the global level is the one of
\* the new configuration, the per-domain overrides in force are exactly those
\* the new configuration defines, and, where the new global level admits info,
\* 'Configuration reloaded' is the entry logged last.
C32_LevelsSwapped ==
    [][C32_Reloaded =>
          /\ globalLevel' = config'.global.logging
          /\ C32_InForce(domainLevels') = C32_Defined(config')
          /\ LevelAllows(globalLevel', "info") =>
                /\ logBuffer' # <<>>
                /\ logBuffer'[Len(logBuffer')] =
                       LogEntry("info", Str_SYSTEM, "Configuration reloaded", None)]_vars


----------------------------------------------------------------------------
(* C33: a reload while a request is in flight                              *)

\* HTTP request r arrives in this step.
C33_Arrives(r) == reqs[r].pc = "idle" /\ reqs'[r].pc # "idle" /\ reqs'[r].kind = "http"

\* HTTP request r is handed to the proxy in this step.
C33_Forwarded(r) == reqs[r].kind = "http" /\ reqs[r].fwd = None /\ reqs'[r].fwd # None

\* The route of the current table for the request as it arrived.
C33_RouteNow(rq) == findRoute(config.routes, extractDomain(rq.host), Some(rq.originalUrl))

----------------------------------------------------------------------------
(* C34: captureRequestBody settles                                         *)

\* The timer fires in this step and req has emitted no data so far.
C34_TimeoutWithoutData == ~cpTimer /\ cpTimer' /\ cpEmitted = 0

\* C34 as stated: whatever req does, the promise of captureRequestBody is
\* settled at some time and handleRequest goes on; when the timer fires and no
\* data has arrived the promise is settled, with the empty-body placeholder
\* unless it was settled before; and a settled promise keeps its result.
C34_CaptureSettles ==
    /\ <>(IsSome(cpCap.result) /\ cpPc # "capturing")
    /\ [][/\ C34_TimeoutWithoutData =>
                /\ IsSome(cpCap'.result)
                /\ cpCap.result = None =>
                      cpCap'.result = Some([kind |-> "resolve",
                                            value |-> Body(Txt_EmptyBody, <<>>)])
          /\ IsSome(cpCap.result) => cpCap'.result = cpCap.result
          /\ IsSome(cpRequestBody) => cpRequestBody' = cpRequestBody]_vars


----------------------------------------------------------------------------
(* C39: the request body the target receives while it is captured          *)

\* C39 as stated: the request to the target is written the chunks of the
\* client's body as they are emitted, in order, and when it is ended it has
\* been written the body the client sent, whatever the capture settled with.
C39_UpstreamGetsBody ==
    /\ cpUpstream.state # "none" =>
          cpUpstream.chunks = SubSeq(cpIn.body, 1, cpEmitted)
    /\ cpUpstream.state = "ended" => cpUpstream.chunks = cpIn.body


----------------------------------------------------------------------------
(* C35: logging to a file does not hold up the response                    *)

\* The handler makes a log call before its response and the Logger admits it.
C35_Admitted ==
    /\ beIn.kind = "relayed" => beIn.tracing
    /\ LevelAllows(beIn.level, LevelOf(beIn.kind))

\* The subscriber has been sent the entry.
C35_Broadcast == \E i \in 1..Len(beReceived) : beReceived[i].entry = HandlerEntry

\* C35 as stated: whether the write to the log file completes, fails or never
\* completes, an admitted entry is in the LogBuffer from the log call on and is
\* broadcast to a connected subscriber, and the request gets its response
\* (404, 503, 500, 502 or the relayed one).
C35_LoggingNeverBlocks ==
    /\ [](C35_Admitted /\ bePc # "start" => beBuffer = <<HandlerEntry>>)
    /\ (C35_Admitted /\ beIn.subscriber => <>C35_Broadcast)
    /\ <>(bePc = "responded" /\ beStatus = Some(StatusOf(beIn.kind)))


----------------------------------------------------------------------------
(* C36: every trace is finalized and evicted                               *)

\* Request r has started a trace and nothing more will happen for it.
C36_Over(r) == IsSome(traceObj[r]) /\ reqs[r].pc = "done"

\* The trace of r has been finalized by finishTrace.
C36_Finalized(r) ==
    /\ IsSome(Get(traceObj[r]).statusCode)
    /\ \E i \in 1..Len(reqs[r].fin) : IsSome(reqs[r].fin[i].rec)

\* The trace of r is gone from the table, or a timer is set that removes it.
C36_EvictedOrDue(r) ==
    \/ reqs[r].traceId \notin DOMAIN traces
    \/ \E i \in 1..Len(timers) : timers[i].id = reqs[r].traceId

\* C36 as stated: once the handling of a request or upgrade that started a
\* trace is over, whatever happened to it, a client that went away included,
\* the trace has been finalized by finishTrace and is evicted or is about to
\* be: no trace stays in the table with no timer to remove it.
C36_EveryTraceEvicted ==
    \A r \in RequestIds : C36_Over(r) => C36_Finalized(r) /\ C36_EvictedOrDue(r)


----------------------------------------------------------------------------
(* C37: one outcome per HTTP request                                       *)

\* The handling of HTTP request r is over after this step.
C37_Ended(r) == reqs'[r].kind = "http" /\ reqs'[r].pc = "done"

\* The outcome the route of a request and what happened upstream call for.
C37_Outcome(rq) ==
    IF ~IsSome(rq.route) THEN 404
    ELSE IF Get(rq.route).route.enabled # Some(TRUE) THEN 503
    ELSE IF ~ValidUrl(Get(rq.route).route.target) THEN 500
    ELSE IF IsSome(rq.errorCode) /\ rq.body = Some(BadGatewayBody(rq)) THEN 502
    ELSE 200

----------------------------------------------------------------------------
(* C38: no entry is delivered twice to a subscriber                        *)

\* C38 as stated: no subscriber is sent the same entry twice, also when it
\* connects with history=true while the write of the entry to the log file is
\* pending, after the entry was put in the LogBuffer and before its broadcast.
C38_NoDuplicateDelivery ==
    \A c \in ClientIds :
        \A i \in 1..Len(sockets[c].received) : \A j \in 1..Len(sockets[c].received) :
            sockets[c].received[i].entry = sockets[c].received[j].entry => i = j


----------------------------------------------------------------------------
(* C40: a route given without `enabled`                                    *)

\* Request r matched a route of its configuration.
C40_Matched(r) == reqs[r].pc # "idle" /\ IsSome(reqs[r].route)

\* The route request r matched has no `enabled` field.
C40_EnabledAbsent(r) == C40_Matched(r) /\ Get(reqs[r].route).route.enabled = None

====
